---- MODULE Spec2Model ----
(***************************************************************************)
(* Model of the lerobot panel front end: the calibration page              *)
(* (CalibrationPage) and the teleoperation page (TeleopPage), each a React *)
(* component whose state is driven by operator clicks, REST responses and  *)
(* websocket snapshots of a backend session.                               *)
(*                                                                         *)
(* A React component is modelled as a record of its useState cells.  One   *)
(* action is one event handler (or one continuation of an async handler    *)
(* after an await) followed by the renders and useEffect passes it causes, *)
(* run until no effect dependency changes any more.                        *)
(*                                                                         *)
(* Text is modelled as sequences of tokens: a log line is the sequence of  *)
(* its words and punctuation marks, so that substring search, lower-casing *)
(* and list parsing are computed, not assumed.                             *)
(***************************************************************************)
EXTENDS Integers, Sequences, FiniteSets, TLC

VARIABLES
    cal,        \* CalibrationPage: the useState cells of the component
    mounted,    \* CalibrationPage is mounted (router.push unmounts it)
    inflight,   \* REST requests awaited by async handlers, with their closures
    sessions,   \* backend registry: session id -> calibration session
    nextSid,    \* backend: the next session id to hand out
    store,      \* backend: the persisted calibration joints of the robot
    tp,         \* TeleopPage: the useState cells and refs of the component
    tpInflight, \* TeleopPage: REST requests awaited by start()/stop()
    fleet,      \* backend: status of the teleop leader and follower
    teleop,     \* backend: the teleoperation session
    now,        \* wall clock (Date.now()), in ms
    home,       \* Home (fleet view): the useState cells of the component
    homeInflight, \* Home: the refreshAll calls awaiting their two responses
    homeSocket, \* fleet_status messages on their way to Home's fleet socket
    presence,   \* backend: the attached devices, the PresencePoller and its broadcasts
    homeOps,    \* Home: selection, dialogs and the create and delete calls awaited
    roster,     \* backend: the persisted robot records
    camera      \* RobotDetailPage: the add-camera dialog and the requests it awaits

vars == <<cal, mounted, inflight, sessions, nextSid, store, tp, tpInflight, fleet, teleop, now,
          home, homeInflight, homeSocket, presence, homeOps, roster, camera>>

calVars == <<cal, mounted, inflight, sessions, nextSid, store>>
tpVars == <<tp, tpInflight, fleet, teleop, now>>
homeVars == <<home, homeInflight, homeSocket, presence, homeOps, roster, camera>>

-----------------------------------------------------------------------------
(* Bounds of the model *)

MaxSessions == 1
MaxInflight == 1
MaxCancels == 2
MaxTeleopStarts == 1
MaxRows == 3
MaxGap == 6
MaxLines == 3
MaxNow == 2500
TickMs == 2500

-----------------------------------------------------------------------------
(* Values standing for null *)

NoSession == 0
NoCode == -1
NoRobot == [id |-> "", joints |-> <<>>]
NoPrompt == [sessionId |-> NoSession, line |-> <<>>, ready |-> FALSE]
NoError == ""

RobotId == "armA"

-----------------------------------------------------------------------------
(* Text *)

LowerTok(t) ==
    CASE t = "Press" -> "press"
      [] t = "PRESS" -> "press"
      [] t = "ENTER" -> "enter"
      [] t = "Requesting" -> "requesting"
      [] t = "Session" -> "session"
      [] t = "Waiting" -> "waiting"
      [] t = "Calibration" -> "calibration"
      [] t = "Move" -> "move"
      [] t = "Some" -> "some"
      [] t = "ID" -> "id"
      [] t = "Time:" -> "time:"
      [] t = "SerialTimeoutException" -> "serialtimeoutexception"
      [] t = "Write" -> "write"
      [] t = "Leader" -> "leader"
      [] t = "Follower" -> "follower"
      [] OTHER -> t

toLowerCase(line) == [i \in 1..Len(line) |-> LowerTok(line[i])]

includes(line, pat) ==
    \E i \in 1..(Len(line) - Len(pat) + 1) : SubSeq(line, i, i + Len(pat) - 1) = pat

RECURSIVE join(_, _)
join(lines, sep) ==
    IF lines = <<>> THEN <<>>
    ELSE IF Len(lines) = 1 THEN lines[1]
    ELSE lines[1] \o <<sep>> \o join(Tail(lines), sep)

slice(s, from, to) == SubSeq(s, from, IF to > Len(s) THEN Len(s) ELSE to)

RECURSIVE dedupe(_)
dedupe(s) ==
    IF s = <<>> THEN <<>>
    ELSE LET init == dedupe(SubSeq(s, 1, Len(s) - 1))
             last == s[Len(s)]
         IN IF \E i \in 1..Len(init) : init[i] = last THEN init ELSE Append(init, last)

Range(s) == {s[i] : i \in 1..Len(s)}

(* The lines the page itself writes, and the marker texts it searches for *)
RequestingLine == <<"Requesting", "calibration", "session", "for", "armA", "...">>
SessionCreatedLine == <<"Session", "created.", "Waiting", "for", "device", "output", "...">>

OverrideMarker ==
    <<"press", "enter", "to", "use", "provided", "calibration", "file",
      "associated", "with", "the", "id">>
SameMinMaxMarker == <<"Some", "motors", "have", "the", "same", "min", "and", "max", "values">>

placeholderTokens ==
    << <<"requesting", "calibration", "session">>,
       <<"session", "created.", "waiting", "for", "device", "output">>,
       <<"calibration", "process", "started.", "waiting", "for", "device", "output">> >>

(* The lines the calibration process and the backend write *)
ProcessStartedLine ==
    <<"Calibration", "process", "started.", "Waiting", "for", "device", "output", "...">>
PromptLine ==
    <<"Press", "ENTER", "to", "use", "provided", "calibration", "file", "associated",
      "with", "the", "id", "armA", ",", "or", "type", "'", "c", "'", "and", "press", "ENTER">>
PromptLineUpper ==
    <<"PRESS", "ENTER", "to", "use", "provided", "calibration", "file", "associated",
      "with", "the", "ID", "armA">>
NeutralLine ==
    <<"Move", "armA", "to", "the", "middle", "of", "its", "range", "and", "press", "ENTER">>
MarkerLine ==
    <<"ValueError:", "Some", "motors", "have", "the", "same", "min", "and", "max", "values", ":">>
CrashLine == <<"SerialException", "device", "disconnected">>

RECURSIVE quotedList(_)
quotedList(names) ==
    IF names = <<>> THEN <<>>
    ELSE <<"'", Head(names), "'">>
         \o (IF Len(names) > 1 THEN <<",", " ">> ELSE <<>>)
         \o quotedList(Tail(names))

ListLine(names) == <<"[">> \o quotedList(names) \o <<"]">>

-----------------------------------------------------------------------------
(* Joints and range rows *)

JointOrder == <<"base", "elbow", "wrist">>

seedJoints ==
    << [name |-> "base", min |-> -180, max |-> 180, current |-> 0],
       [name |-> "shoulder", min |-> -180, max |-> 180, current |-> 0],
       [name |-> "elbow", min |-> -180, max |-> 180, current |-> 0],
       [name |-> "wrist_pitch", min |-> -180, max |-> 180, current |-> 0],
       [name |-> "wrist_roll", min |-> -180, max |-> 180, current |-> 0],
       [name |-> "gripper", min |-> -180, max |-> 180, current |-> 0] >>

jointNames(js) == [i \in 1..Len(js) |-> js[i].name]

abs(x) == IF x < 0 THEN -x ELSE x


Row(n, lo, p, hi) == [name |-> n, min |-> lo, pos |-> p, max |-> hi]

(* A map that keeps only the rows of joints that have not moved *)
reduceRangesOfStillJoints(rows) ==
    LET still(row) == row.max - row.min = 0
    IN SelectSeq(rows, still)

(* A map in which the first row of a name wins *)
RECURSIVE reduceRangesFirstWins(_)
reduceRangesFirstWins(rows) ==
    IF rows = <<>> THEN <<>>
    ELSE LET acc == reduceRangesFirstWins(SubSeq(rows, 1, Len(rows) - 1))
             row == rows[Len(rows)]
         IN IF \E i \in 1..Len(acc) : acc[i].name = row.name THEN acc ELSE Append(acc, row)

(* part_001:203-208, 281-286: rows.reduce((acc, row) => { acc[row.name] = row }, {}).
   The object keeps its keys in insertion order; a repeated name overwrites the
   value in place. *)
RECURSIVE reduceRanges(_)
reduceRanges(rows) ==
    IF rows = <<>> THEN <<>>
    ELSE LET acc == reduceRanges(SubSeq(rows, 1, Len(rows) - 1))
             row == rows[Len(rows)]
             at == {i \in 1..Len(acc) : acc[i].name = row.name}
         IN IF at = {} THEN Append(acc, row)
            ELSE [i \in 1..Len(acc) |-> IF i \in at THEN row ELSE acc[i]]

(* part_001:376-381: ranges.map(row => ({name, min, max, current: row.pos})) *)
rangesToJoints(ranges) ==
    [i \in 1..Len(ranges) |->
        [name |-> ranges[i].name, min |-> ranges[i].min,
         max |-> ranges[i].max, current |-> ranges[i].pos]]

(* part_001:408-410 *)
zeroSpanJoints(ranges) ==
    LET stuck(row) == abs(row.max - row.min) < 1
    IN jointNames(SelectSeq(ranges, stuck))

-----------------------------------------------------------------------------
(* Pure functions of the calibration page *)

firstIndex(s, Test(_)) ==
    IF \E i \in 1..Len(s) : Test(s[i])
    THEN CHOOSE i \in 1..Len(s) : Test(s[i]) /\ \A j \in 1..(i - 1) : ~Test(s[j])
    ELSE 0

(* A marker test that compares the case as written *)
isPromptLineCaseSensitive(line) == includes(line, OverrideMarker)

(* part_001:318-322 *)
isPromptLine(line) == includes(toLowerCase(line), OverrideMarker)

(* part_001:321-323: calibrationLogs.find(...); <<>> stands for undefined *)
findPromptLine(logs) ==
    LET i == firstIndex(logs, isPromptLine) IN IF i = 0 THEN <<>> ELSE logs[i]

(* part_001:351-354 *)
hasRealOutput(logs) ==
    \E i \in 1..Len(logs) :
        ~ \E k \in 1..Len(placeholderTokens) :
            includes(toLowerCase(logs[i]), placeholderTokens[k])

RECURSIVE split(_, _)
split(toks, sep) ==
    LET isSep(t) == t = sep
        i == firstIndex(toks, isSep)
    IN IF i = 0 THEN <<toks>>
       ELSE <<SubSeq(toks, 1, i - 1)>> \o split(SubSeq(toks, i + 1, Len(toks)), sep)

RECURSIVE trim(_)
trim(toks) ==
    IF toks = <<>> THEN <<>>
    ELSE IF Head(toks) = " " THEN trim(Tail(toks))
    ELSE IF toks[Len(toks)] = " " THEN trim(SubSeq(toks, 1, Len(toks) - 1))
    ELSE toks

(* A list entry is one word in every line of the model; word() names it. *)
word(toks) == toks[1]

(* A parser that also reads the sixth line after the marker *)
extractUnmovedJointsSevenLines(logs) ==
    LET hasMarker(line) == includes(line, SameMinMaxMarker)
        idx == firstIndex(logs, hasMarker)
    IN IF idx = 0 THEN <<>>
       ELSE
        LET text == join(slice(logs, idx, idx + 6), " ")
            \* /\[([^\]]+)\]/ : the leftmost "[" followed by at least one
            \* token other than "]" and then by "]"
            close(p) ==
                LET isClose(t) == t = "]"
                    k == firstIndex(SubSeq(text, p + 1, Len(text)), isClose)
                IN IF k = 0 THEN 0 ELSE p + k
            opens == {p \in 1..Len(text) : text[p] = "[" /\ close(p) > p + 1}
        IN IF opens = {} THEN <<>>
           ELSE
            LET p == CHOOSE x \in opens : \A y \in opens : x <= y
                inner == SubSeq(text, p + 1, close(p) - 1)
                notQuote(t) == t \notin {"'", "\""}
                parts == split(SelectSeq(inner, notQuote), ",")
                trimmed == [i \in 1..Len(parts) |-> trim(parts[i])]
                nonEmpty(part) == part # <<>>
                kept == SelectSeq(trimmed, nonEmpty)
            IN [i \in 1..Len(kept) |-> word(kept[i])]

(* part_001:392-403 *)
extractUnmovedJoints(logs) ==
    LET hasMarker(line) == includes(line, SameMinMaxMarker)
        idx == firstIndex(logs, hasMarker)
    IN IF idx = 0 THEN <<>>
       ELSE
        LET text == join(slice(logs, idx, idx + 5), " ")
            \* /\[([^\]]+)\]/ : the leftmost "[" followed by at least one
            \* token other than "]" and then by "]"
            close(p) ==
                LET isClose(t) == t = "]"
                    k == firstIndex(SubSeq(text, p + 1, Len(text)), isClose)
                IN IF k = 0 THEN 0 ELSE p + k
            opens == {p \in 1..Len(text) : text[p] = "[" /\ close(p) > p + 1}
        IN IF opens = {} THEN <<>>
           ELSE
            LET p == CHOOSE x \in opens : \A y \in opens : x <= y
                inner == SubSeq(text, p + 1, close(p) - 1)
                notQuote(t) == t \notin {"'", "\""}
                parts == split(SelectSeq(inner, notQuote), ",")
                trimmed == [i \in 1..Len(parts) |-> trim(parts[i])]
                nonEmpty(part) == part # <<>>
                kept == SelectSeq(trimmed, nonEmpty)
            IN [i \in 1..Len(kept) |-> word(kept[i])]

(* part_001:389-390 *)
calibrationFailed(s) ==
    ~s.calibrationRunning /\ s.calibrationReturnCode # NoCode /\ s.calibrationReturnCode # 0

(* The two lists one after the other, repeated names kept *)
combinedStuckJointsWithRepeats(logs, ranges) ==
    extractUnmovedJoints(logs) \o zeroSpanJoints(ranges)

(* part_001:407-411 *)
combinedStuckJoints(logs, ranges) ==
    dedupe(extractUnmovedJoints(logs) \o zeroSpanJoints(ranges))


-----------------------------------------------------------------------------
(* CalibrationPage: state cells (part_001:37-69).  selectedRobotId is the
   constant RobotId.  message, showConsole and consoleMounted are display
   only and are read by no handler or effect; they are left out.

   jointsRef and targetRef are not React state: they record object identity,
   which decides whether a useEffect dependency has changed.
     jointsRef: calibrationJoints is the very array calibrationTarget.calibration.joints
     targetRef: calibrationTarget is the very element of robots
   redirectTimer is the pending setTimeout of part_001:432-434.
   fleetSocket and sessionSocket are the WebSockets of part_001:89-123 and
   243-309: "none" (not connected), "open", "waiting" (closed, the reconnect
   timer is pending) or "reopened" (connected again, nothing received yet).
   socketSid is the calibrationSessionId captured by the closure of the
   session socket effect that is in place, and oldSocket the socket of the
   effect that was cleaned up last: the `stopped` flag and the reconnect
   timer of its closure, the number of events it has delivered since, and
   whether its close event has been delivered. *)

NoSocket ==
    [sid |-> NoSession, stopped |-> FALSE, timer |-> FALSE, received |-> 0, closed |-> FALSE]

initialCal ==
    [ robots |-> <<>>,
      loading |-> FALSE,
      error |-> NoError,
      autoStarted |-> FALSE,
      calibrationTarget |-> NoRobot,
      calibrationReady |-> FALSE,
      calibrationSessionId |-> NoSession,
      calibrationLogs |-> <<>>,
      calibrationRunning |-> FALSE,
      calibrationStarted |-> FALSE,
      calibrationStarting |-> FALSE,
      calibrationSaving |-> FALSE,
      calibrationWaitingForOutput |-> FALSE,
      completionOverlay |-> FALSE,
      introVisible |-> TRUE,
      calibrationReturnCode |-> NoCode,
      calibrationOverridePrompt |-> NoPrompt,
      calibrationOverrideHandled |-> FALSE,
      calibrationErrorModal |-> FALSE,
      calibrationErrorJoints |-> <<>>,
      calibrationJoints |-> <<>>,
      calibrationRanges |-> <<>>,
      jointsRef |-> FALSE,
      targetRef |-> FALSE,
      redirectTimer |-> FALSE,
      fleetSocket |-> "open",
      sessionSocket |-> "none",
      socketSid |-> NoSession,
      oldSocket |-> NoSocket ]

(* A request awaited by an async handler: the call, the values its closure
   captured, and the backend's answer once it has been served. *)
NoRes ==
    [ session_id |-> NoSession, robot |-> NoRobot, robots |-> <<>>, logs |-> <<>>,
      running |-> FALSE, dry_run |-> FALSE, return_code |-> NoCode, ranges |-> <<>> ]

Req(handler, call, sid, target, joints) ==
    [ handler |-> handler, call |-> call, sid |-> sid, target |-> target,
      joints |-> joints, result |-> "none", res |-> NoRes ]

(* A batch of setState calls: the state they lead to, the cells that were
   given a new object, the requests sent, and whether router.push was called. *)
Batch(s) == [s |-> s, fresh |-> {}, reqs |-> <<>>, nav |-> FALSE]

(* setX(v) for the cells named in kv, v a primitive, null or the object the
   cell already holds *)
Set(u, kv) ==
    [u EXCEPT !.s = [k \in DOMAIN u.s |-> IF k \in DOMAIN kv THEN kv[k] ELSE u.s[k]],
              !.fresh = u.fresh \ DOMAIN kv]

(* setX(v) for the cells named in kv, v a newly created array or object *)
SetNew(u, kv) ==
    [u EXCEPT !.s = [k \in DOMAIN u.s |-> IF k \in DOMAIN kv THEN kv[k] ELSE u.s[k]],
              !.fresh = u.fresh \cup DOMAIN kv]

Issue(u, req) == [u EXCEPT !.reqs = Append(u.reqs, req)]

Navigate(u) == [u EXCEPT !.nav = TRUE]

(* setCalibrationTarget(robot): inRobots says that robot is an element of the
   robots array the page holds *)
SetTarget(u, robot, inRobots) ==
    IF robot = NoRobot
    THEN Set(u, [calibrationTarget |-> NoRobot, jointsRef |-> FALSE, targetRef |-> FALSE])
    ELSE Set(SetNew(u, [calibrationTarget |-> robot]),
             [jointsRef |-> FALSE, targetRef |-> inRobots])

(* setRobots(list), list parsed from a response or a websocket payload *)
SetRobots(u, list) == Set(SetNew(u, [robots |-> list]), [targetRef |-> FALSE])

hasJoints(robot) == Len(robot.joints) > 0

(* The cells whose identity differs between the render that saw r and the
   state the batch u leads to; calibrationFailed is computed at render. *)
Changed(r, u) ==
    u.fresh
    \cup {k \in DOMAIN r : u.s[k] # r[k]}
    \cup (IF calibrationFailed(u.s) # calibrationFailed(r) THEN {"calibrationFailed"} ELSE {})

(* part_001:141-159 *)
cleanupCalibrationSession(u) ==
    SetNew(
        Set(u, [ calibrationSessionId |-> NoSession,
                 calibrationRunning |-> FALSE,
                 calibrationStarted |-> FALSE,
                 calibrationReturnCode |-> NoCode,
                 calibrationErrorModal |-> FALSE,
                 calibrationOverridePrompt |-> NoPrompt,
                 calibrationOverrideHandled |-> FALSE,
                 calibrationStarting |-> FALSE,
                 calibrationSaving |-> FALSE,
                 calibrationWaitingForOutput |-> FALSE,
                 completionOverlay |-> FALSE,
                 introVisible |-> FALSE ]),
        [ calibrationLogs |-> <<>>,
          calibrationRanges |-> <<>>,
          calibrationErrorJoints |-> <<>> ])

(* part_001:173-194: handleCalibrate from cleanupCalibrationSession() to the
   await of startCalibration.  target is the closure's calibrationTarget;
   sameTarget says that it is still the object the page holds. *)
handleCalibrateStart(u, target, sameTarget) ==
    LET u1 == Set(cleanupCalibrationSession(u),
                  [ introVisible |-> TRUE,
                    calibrationStarting |-> TRUE,
                    calibrationWaitingForOutput |-> TRUE,
                    calibrationReady |-> FALSE,
                    calibrationSaving |-> FALSE ])
        u2 == IF hasJoints(target)
              THEN IF sameTarget /\ u1.s.jointsRef THEN u1
                   ELSE Set(SetNew(u1, [calibrationJoints |-> target.joints]),
                            [jointsRef |-> sameTarget])
              ELSE Set(SetNew(u1, [calibrationJoints |-> seedJoints]), [jointsRef |-> FALSE])
        u3 == SetNew(u2, [calibrationLogs |-> <<RequestingLine>>, calibrationRanges |-> <<>>])
        u4 == Set(u3, [ calibrationRunning |-> FALSE,
                        calibrationStarted |-> FALSE,
                        calibrationReturnCode |-> NoCode,
                        calibrationOverridePrompt |-> NoPrompt,
                        calibrationOverrideHandled |-> FALSE,
                        loading |-> TRUE,
                        error |-> NoError ])
    IN Issue(u4, Req("handleCalibrate", "startCalibration", NoSession, target, <<>>))

(* part_001:161-172: handleCalibrate up to its first await; r is the render
   whose closure the handler runs in *)
handleCalibrate(r, u) ==
    IF r.calibrationTarget = NoRobot
    THEN Set(u, [error |-> "No robot selected for calibration."])
    ELSE IF r.calibrationSessionId # NoSession
    THEN Issue(u, Req("handleCalibrate", "cancelCalibration", r.calibrationSessionId,
                  r.calibrationTarget, <<>>))
    ELSE handleCalibrateStart(u, r.calibrationTarget, TRUE)

(* part_001:419-425: saveCalibrationFlow up to the await of saveCalibration *)
saveCalibrationFlow(r, u) ==
    IF r.calibrationTarget = NoRobot THEN u
    ELSE IF r.completionOverlay THEN u
    ELSE Issue(Set(u, [loading |-> TRUE]),
               Req("saveCalibrationFlow", "saveCalibration", NoSession,
                   r.calibrationTarget, r.calibrationJoints))


-----------------------------------------------------------------------------
(* CalibrationPage: the useEffect bodies.  Each reads the render r it was
   created in and adds its setState calls to the batch u. *)

findRobot(robots) ==
    LET isSelected(x) == x.id = RobotId
        i == firstIndex(robots, isSelected)
    IN IF i = 0 THEN NoRobot ELSE robots[i]

(* part_001:125-132 *)
targetFromFleetEffect(r, u) ==
    LET target == findRobot(r.robots)
    IN IF target = NoRobot THEN SetTarget(u, NoRobot, FALSE)
       ELSE IF r.targetRef THEN u
       ELSE SetTarget(u, target, TRUE)

(* part_001:134-140 *)
robotNotFoundEffect(r, u) ==
    IF Len(r.robots) = 0 THEN u
    ELSE IF r.calibrationTarget = NoRobot
    THEN Set(u, [error |-> "Robot not found."])
    ELSE u

(* part_001:231-241 *)
readyFromTargetEffect(r, u) ==
    IF r.calibrationTarget = NoRobot THEN u
    ELSE
     LET target == r.calibrationTarget
         stillHeld == u.s.calibrationTarget = target /\ "calibrationTarget" \notin u.fresh
         u1 == IF r.calibrationSessionId = NoSession /\ ~r.calibrationStarting
               THEN Set(u, [calibrationReady |-> hasJoints(target)])
               ELSE u
     IN IF hasJoints(target)
        THEN IF r.jointsRef THEN u1
             ELSE Set(SetNew(u1, [calibrationJoints |-> target.joints]),
                      [jointsRef |-> stillHeld])
        ELSE Set(SetNew(u1, [calibrationJoints |-> seedJoints]), [jointsRef |-> FALSE])

(* part_001:310-336 *)
overridePromptEffect(r, u) ==
    IF r.calibrationSessionId = NoSession
    THEN Set(u, [calibrationOverridePrompt |-> NoPrompt])
    ELSE
     LET u1 == IF r.calibrationOverridePrompt # NoPrompt
                  /\ r.calibrationOverridePrompt.sessionId # r.calibrationSessionId
               THEN Set(u, [calibrationOverridePrompt |-> NoPrompt])
               ELSE u
         promptLine == findPromptLine(r.calibrationLogs)
     IN IF promptLine # <<>>
           /\ ~r.calibrationOverrideHandled
           /\ (r.calibrationOverridePrompt = NoPrompt \/ ~r.calibrationOverridePrompt.ready)
        THEN Set(SetNew(u1, [calibrationOverridePrompt |->
                                [sessionId |-> r.calibrationSessionId,
                                 line |-> promptLine,
                                 ready |-> TRUE]]),
                 [calibrationStarted |-> FALSE])
        ELSE u1

(* part_001:338-342 *)
hideIntroEffect(r, u) ==
    IF r.calibrationOverridePrompt # NoPrompt THEN Set(u, [introVisible |-> FALSE]) ELSE u

(* part_001:344-358 *)
waitingForOutputEffect(r, u) ==
    IF ~r.calibrationWaitingForOutput THEN u
    ELSE IF hasRealOutput(r.calibrationLogs)
    THEN Set(u, [calibrationWaitingForOutput |-> FALSE])
    ELSE u

(* A capture that takes no joints from the range rows *)
captureEffectWithoutRanges(r, u) ==
    IF r.calibrationSessionId = NoSession THEN u
    ELSE IF ~r.calibrationStarted \/ r.calibrationReady THEN u
    ELSE IF r.calibrationRunning THEN u
    ELSE Set(u, [calibrationReady |-> TRUE, calibrationStarted |-> FALSE])

(* part_001:369-387 *)
captureEffect(r, u) ==
    IF r.calibrationSessionId = NoSession THEN u
    ELSE IF ~r.calibrationStarted \/ r.calibrationReady THEN u
    ELSE IF r.calibrationRunning THEN u
    ELSE
     LET u1 == IF Len(r.calibrationRanges) > 0
               THEN Set(SetNew(u, [calibrationJoints |-> rangesToJoints(r.calibrationRanges)]),
                        [jointsRef |-> FALSE])
               ELSE u
     IN Set(u1, [calibrationReady |-> TRUE, calibrationStarted |-> FALSE])

(* part_001:405-417 *)
failureEffect(r, u) ==
    IF calibrationFailed(r)
    THEN Set(SetNew(u, [calibrationErrorJoints |->
                           combinedStuckJoints(r.calibrationLogs, r.calibrationRanges)]),
             [ calibrationSaving |-> FALSE,
               completionOverlay |-> FALSE,
               calibrationErrorModal |-> TRUE ])
    ELSE u

(* part_001:443-447 *)
autoSaveEffect(r, u) ==
    IF r.calibrationReady /\ r.calibrationSaving /\ r.calibrationTarget # NoRobot
       /\ ~r.completionOverlay /\ ~calibrationFailed(r)
    THEN saveCalibrationFlow(r, u)
    ELSE u

(* An auto-start that runs for every target it is given *)
autoStartEffectEveryTarget(r, u) ==
    IF r.calibrationTarget # NoRobot
    THEN handleCalibrate(r, Set(u, [autoStarted |-> TRUE]))
    ELSE u

(* part_001:566-573 *)
autoStartEffect(r, u) ==
    IF r.calibrationTarget # NoRobot /\ ~r.autoStarted
    THEN handleCalibrate(r, Set(u, [autoStarted |-> TRUE]))
    ELSE u

(* An effect that keeps the socket it has whatever the session id becomes *)
sessionSocketEffectKeepingSocket(r, u) == u

(* part_001:243-309: the effect on calibrationSessionId; its cleanup stops
   the old socket and its timer, its body connects to the new session *)
(* part_001:303-307: the cleanup of the session socket effect sets `stopped`,
   clears the reconnect timer and closes the socket *)
sessionSocketCleanup(s) ==
    IF s.socketSid = NoSession THEN s.oldSocket
    ELSE [sid |-> s.socketSid, stopped |-> TRUE, timer |-> FALSE,
          received |-> 0, closed |-> FALSE]

sessionSocketEffect(r, u) ==
    Set(u, [sessionSocket |-> IF r.calibrationSessionId = NoSession THEN "none" ELSE "open",
            socketSid |-> r.calibrationSessionId,
            oldSocket |-> sessionSocketCleanup(u.s)])

(* part_001:117-121, 303-307: the cleanups that run when the page is left *)
closeSockets(s) ==
    [s EXCEPT !.fleetSocket = "none", !.sessionSocket = "none",
              !.socketSid = NoSession, !.oldSocket = sessionSocketCleanup(s)]

(* The dependency arrays, in the order the effects are declared.
   saveCalibrationFlow is a useCallback over calibrationTarget,
   calibrationJoints and completionOverlay (part_001:441). *)
When(deps, ch, Effect(_, _), r, u) == IF deps \cap ch # {} THEN Effect(r, u) ELSE u

EffectPass(r, ch) ==
    When({"calibrationTarget", "autoStarted"}, ch, autoStartEffect, r,
    When({"calibrationReady", "calibrationSaving", "calibrationTarget",
          "completionOverlay", "calibrationFailed", "calibrationJoints"},
         ch, autoSaveEffect, r,
    When({"calibrationFailed", "calibrationLogs", "calibrationRanges"},
         ch, failureEffect, r,
    When({"calibrationSessionId", "calibrationStarted", "calibrationRunning",
          "calibrationRanges", "calibrationReady"}, ch, captureEffect, r,
    When({"calibrationLogs", "calibrationWaitingForOutput"}, ch, waitingForOutputEffect, r,
    When({"calibrationOverridePrompt"}, ch, hideIntroEffect, r,
    When({"calibrationSessionId", "calibrationLogs", "calibrationOverrideHandled",
          "calibrationOverridePrompt"}, ch, overridePromptEffect, r,
    When({"calibrationSessionId"}, ch, sessionSocketEffect, r,
    When({"calibrationTarget", "calibrationSessionId", "calibrationStarting"},
         ch, readyFromTargetEffect, r,
    When({"robots", "calibrationTarget"}, ch, robotNotFoundEffect, r,
    When({"robots"}, ch, targetFromFleetEffect, r, Batch(r))))))))))))

(* Render and run effects until no dependency changes *)
RECURSIVE Render(_, _, _)
RenderAfter(s, p, reqs) == Render(p.s, Changed(s, p), reqs \o p.reqs)

Render(s, ch, reqs) ==
    IF ch = {} THEN [s |-> s, reqs |-> reqs]
    ELSE RenderAfter(s, EffectPass(s, ch), reqs)

(* The state and the requests a handler's batch u, started in state s0, ends in *)
Settle(s0, u) == Render(u.s, Changed(s0, u), u.reqs)


-----------------------------------------------------------------------------
(* Backend: the calibration session registry, the calibration process and the
   persisted store.  The backend is not part of the front-end sources; it is
   modelled from the specification (ProcessSession, SessionRegistry, the
   external calibration process and the persisted store). *)

StoredJoints ==
    << [name |-> "base", min |-> -90, max |-> 90, current |-> 5] >>

RunningPhases == {"boot", "prompt", "neutral", "sweep", "closing", "keeping"}

sessionRunning(sess) == sess.phase \in RunningPhases

storedRobot(joints) == [id |-> RobotId, joints |-> joints]

newSession(dry) ==
    [ phase |-> IF dry THEN "dry" ELSE "boot",
      rc |-> NoCode,
      logs |-> IF dry THEN <<>> ELSE <<ProcessStartedLine>>,
      ranges |-> <<>> ]

sessionSnapshot(sid, sess, joints) ==
    [ session_id |-> sid, robot |-> storedRobot(joints), robots |-> <<>>,
      logs |-> sess.logs, running |-> sessionRunning(sess), dry_run |-> sess.phase = "dry",
      return_code |-> sess.rc, ranges |-> sess.ranges ]

(* The process reads one line of input: "c" at the override prompt runs the
   calibration, a plain ENTER keeps the existing file; ENTER starts the sweep
   and ENTER ends it. *)
writeInput(sess, text) ==
    CASE sess.phase = "prompt" /\ text = "c" ->
            [sess EXCEPT !.phase = "neutral", !.logs = Append(sess.logs, NeutralLine)]
      [] sess.phase = "prompt" /\ text # "c" -> [sess EXCEPT !.phase = "keeping"]
      [] sess.phase = "neutral" -> [sess EXCEPT !.phase = "sweep"]
      [] sess.phase = "sweep" -> [sess EXCEPT !.phase = "closing"]
      [] OTHER -> sess

(* An exit callback that always records the code *)
onExitEveryTime(sess, code) == [sess EXCEPT !.phase = "exited", !.rc = code]

(* ProcessSession.onExit(code): sets running=false and returnCode=code; the
   callback of a session that is not running is ignored *)
onExit(sess, code) ==
    IF sessionRunning(sess) THEN [sess EXCEPT !.phase = "exited", !.rc = code] ELSE sess

removeSession(reg, sid) == [s \in DOMAIN reg \ {sid} |-> reg[s]]

isMoved(row) == row.max - row.min >= 1

(* The joints the process reports as not moved when the sweep ends *)
unmovedAtExit(ranges) ==
    LET moved == {ranges[i].name : i \in {k \in 1..Len(ranges) : isMoved(ranges[k])}}
        notMoved(n) == n \notin moved
    IN SelectSeq(JointOrder, notMoved)


-----------------------------------------------------------------------------
(* TeleopPage (TeleopClientPage.tsx:1-620): text of the teleop session logs *)

LeaderId == "leaderA"
FollowerId == "followerA"

NoDevice == [id |-> "", status |-> ""]

TimeLine == <<"Time:", "12ms">>
LeaderConnectedLine == <<"Leader", "arm", "connected.">>
FollowerConnectedLine == <<"Follower", "arm", "connected.">>
LeaderFaultLine == <<"SerialTimeoutException", "in", "so101_leader", "write">>
FollowerFaultLine == <<"Write", "timeout", "on", "so101_follower">>
PortFaultLine == <<"could", "not", "open", "port", "COM3">>
StartingLine == <<"Starting:", "lerobot-teleoperate">>

(* TeleopClientPage.tsx:44-53.  Tokens are separated by white space.
   /^time:\s/i needs white space after the colon; /\bleader\b.*\bconnected\.\b/i
   needs a word character right after the full stop, which only a token such
   as "connected.x" has. *)
isTeleopConfirmedStartedFromLogs(logs) ==
    LET lines == [i \in 1..Len(logs) |-> trim(logs[i])]
        low(i) == toLowerCase(lines[i])
        timed(i) == Len(lines[i]) >= 2 /\ low(i)[1] = "time:"
        connected(i, role) ==
            \E a \in 1..Len(lines[i]) : \E b \in (a + 1)..Len(lines[i]) :
                low(i)[a] = role /\ low(i)[b] = "connected.x"
    IN \/ \E i \in 1..Len(lines) : timed(i)
       \/ /\ \E i \in 1..Len(lines) : connected(i, "leader")
          /\ \E i \in 1..Len(lines) : connected(i, "follower")

errorMarkers ==
    << <<"serialtimeoutexception">>, <<"write", "timeout">>, <<"could", "not", "open", "port">>,
       <<"file", "not", "found">>, <<"filenotfounderror">>, <<"permissionerror">>,
       <<"access", "is", "denied">>, <<"no", "such", "file", "or", "directory">> >>

leaderHints ==
    << <<"so101_leader">>, <<"so100_leader">>, <<"01_leader.py">>, <<"leader.py">>,
       <<"so101leader">> >>

followerHints ==
    << <<"so101_follower">>, <<"so100_follower">>, <<"follower.py">>, <<"so101follower">> >>

someLineIncludes(lines, patterns) ==
    \E i \in 1..Len(lines) : \E k \in 1..Len(patterns) :
        includes(toLowerCase(lines[i]), patterns[k])

(* TeleopClientPage.tsx:55-94: "" stands for null *)
inferDisconnectFromLogs(logs) ==
    LET nonEmpty(line) == line # <<>>
        lines == SelectSeq([i \in 1..Len(logs) |-> trim(logs[i])], nonEmpty)
        mentionsLeader == someLineIncludes(lines, leaderHints)
        mentionsFollower == someLineIncludes(lines, followerHints)
    IN IF ~someLineIncludes(lines, errorMarkers) THEN ""
       ELSE IF mentionsLeader /\ ~mentionsFollower THEN "leader"
       ELSE "follower"

(* A merge that keeps only what comes in *)
mergeDisconnectRolesOverwriting(existing, incoming) == incoming

(* TeleopClientPage.tsx:96-97 *)
mergeDisconnectRoles(existing, incoming) == dedupe(existing \o incoming)

-----------------------------------------------------------------------------
(* TeleopPage: state cells and refs (TeleopClientPage.tsx:15-34).  message,
   showConsole and consoleMounted are display only; previousStatuses is
   written and never read.  socketLeader and socketFollower are the leader
   and follower the session socket's onmessage closure was created with. *)

initialTp ==
    [ robots |-> <<>>,
      leader |-> NoDevice,
      follower |-> NoDevice,
      loading |-> FALSE,
      error |-> NoError,
      running |-> FALSE,
      logs |-> <<>>,
      safetyModal |-> TRUE,
      sessionId |-> NoSession,
      teleopStarting |-> FALSE,
      disconnectModalOpen |-> FALSE,
      disconnectAlertRoles |-> <<>>,
      suppressDisconnectModalUntil |-> 0,
      socketLeader |-> NoDevice,
      socketFollower |-> NoDevice,
      sessionSocket |-> "none",
      mounted |-> TRUE ]

NoTeleop == [sid |-> NoSession, phase |-> "none", rc |-> NoCode, logs |-> <<>>, starts |-> 0]

TpReq(handler, andThen) ==
    [handler |-> handler, andThen |-> andThen, result |-> "none",
     robots |-> <<>>, session_id |-> NoSession, dry_run |-> FALSE]

findDevice(robots, id) ==
    LET isIt(x) == x.id = id
        i == firstIndex(robots, isIt)
    IN IF i = 0 THEN NoDevice ELSE robots[i]

(* TeleopClientPage.tsx:328-330 *)
bothConnected(s) == s.leader.status = "online" /\ s.follower.status = "online"

(* A disconnect that also takes the page out of Running and Starting *)
markDisconnectedAndStopped(s, roles, open) ==
    [s EXCEPT !.disconnectAlertRoles = mergeDisconnectRoles(s.disconnectAlertRoles, roles),
              !.disconnectModalOpen = IF open THEN TRUE ELSE s.disconnectModalOpen,
              !.running = FALSE,
              !.teleopStarting = FALSE]

(* TeleopClientPage.tsx:187-193 and 234-238: the roles are merged into
   disconnectAlertRoles and, when open, the disconnect dialog is opened *)
markDisconnected(s, roles, open) ==
    [s EXCEPT !.disconnectAlertRoles = mergeDisconnectRoles(s.disconnectAlertRoles, roles),
              !.disconnectModalOpen = IF open THEN TRUE ELSE s.disconnectModalOpen]

(* TeleopClientPage.tsx:144-149 and 223-245: setRobots(list) followed by the
   two effects that depend on robots *)
teleopSetRobots(s, list, clock) ==
    LET leaderStatus == findDevice(list, LeaderId).status
        followerStatus == findDevice(list, FollowerId).status
        offlineRoles == (IF leaderStatus = "offline" THEN <<"leader">> ELSE <<>>)
                        \o (IF followerStatus = "offline" THEN <<"follower">> ELSE <<>>)
        s1 == [s EXCEPT !.robots = list,
                        !.leader = findDevice(list, LeaderId),
                        !.follower = findDevice(list, FollowerId)]
    IN IF offlineRoles = <<>> THEN s1
       ELSE markDisconnected(s1, offlineRoles, clock >= s.suppressDisconnectModalUntil)

(* TeleopClientPage.tsx:165-221: the effect on sessionId opens the session
   socket; its onmessage closure keeps the leader and follower of that render *)
teleopSetSessionId(s, sid) ==
    IF sid = s.sessionId THEN s
    ELSE [s EXCEPT !.sessionId = sid, !.socketLeader = s.leader, !.socketFollower = s.follower,
                   !.sessionSocket = IF sid = NoSession THEN "none" ELSE "open"]

-----------------------------------------------------------------------------
(* The calibration page and the backend it talks to *)

(* Home (page.tsx:1181-1590) and the presence the backend keeps.  The
   PresenceSnapshot is modelled by the set of its keys. *)

Devices == {"COM3", "COM4"}

(* The COM port stored with the robot *)
RobotPort == "COM3"

(* page.tsx:1183-1186 *)
initialHome == [robots |-> <<>>, ports |-> {}, loading |-> FALSE, error |-> NoError]

(* A robot is online iff its stored port is a key of the snapshot *)
statusOf(port, snapshot) == IF port \in snapshot THEN "online" ELSE "offline"

(* The robot records joined with the statuses the snapshot gives them *)
fleetRecords(snapshot) ==
    << [id |-> RobotId, com_port |-> RobotPort, status |-> statusOf(RobotPort, snapshot)] >>

(* FleetSnapshot: the payload of a fleet_status message *)
fleetSnapshot(snapshot) == [robots |-> fleetRecords(snapshot), ports |-> snapshot]

initialPresence(attached) ==
    [attached |-> attached, snapshot |-> attached, broadcast |-> fleetRecords(attached),
     publishes |-> 0, plugs |-> 0]

(* page.tsx:1188-1192, with the createRobot calls awaited, the handleBulkDelete
   run in progress and the number of runs so far *)
NoBulk == [ids |-> <<>>, at |-> 0, failed |-> <<>>, selected |-> {}, robots |-> <<>>,
           result |-> "none"]

initialHomeOps ==
    [selectedIds |-> {}, confirmBulkDelete |-> FALSE, wizardOpen |-> FALSE,
     creates |-> <<>>, bulk |-> NoBulk, bulkRuns |-> 0]

NoRoster == [stored |-> <<>>, created |-> 0]

NoCamera == ""

(* part_004:26-33 *)
defaultCameraForm == [name |-> "", serial_number |-> "", path |-> ""]

NoProbe == [device |-> NoCamera, label |-> "", serial_number |-> "", path |-> ""]

(* part_004:55-65: the dialog's useState cells, previewTokenRef and the
   probe and snapshot requests awaited *)
initialCamera ==
    [ showAddCameraModal |-> FALSE,
      selectedCameraId |-> NoCamera,
      cameraProbe |-> NoProbe,
      cameraForm |-> defaultCameraForm,
      cameraPreviewUrl |-> NoCamera,
      cameraPreviewLoading |-> FALSE,
      probingCamera |-> FALSE,
      cameraValidation |-> NoError,
      previewFailures |-> 0,
      previewToken |-> 0,
      calls |-> <<>> ]

HomeClosed ==
    /\ camera = initialCamera
    /\ home = initialHome
    /\ homeInflight = <<>>
    /\ homeSocket = <<>>
    /\ presence = initialPresence({})
    /\ homeOps = initialHomeOps
    /\ roster = NoRoster

(* The teleoperation page is not open *)
InitTeleopIdle ==
    /\ tp = [initialTp EXCEPT !.mounted = FALSE]
    /\ tpInflight = <<>>
    /\ fleet = [leader |-> "offline", follower |-> "offline"]
    /\ teleop = NoTeleop
    /\ now = 0

(* First render: every effect runs once on the initial state and changes
   nothing; the mount effect (part_001:85-87) has called refreshRobots. *)
InitCal ==
    /\ cal = initialCal
    /\ mounted = TRUE
    /\ inflight = << Req("refreshRobots", "fetchRobots", NoSession, NoRobot, <<>>) >>
    /\ sessions = <<>>
    /\ nextSid = 1
    /\ store \in {<<>>, StoredJoints}
    /\ InitTeleopIdle
    /\ HomeClosed

Without(q, i) == SubSeq(q, 1, i - 1) \o SubSeq(q, i + 1, Len(q))

Pending(i, call) ==
    /\ i \in 1..Len(inflight)
    /\ inflight[i].call = call
    /\ inflight[i].result = "none"

Answered(i, handler, call) ==
    /\ i \in 1..Len(inflight)
    /\ inflight[i].handler = handler
    /\ inflight[i].call = call
    /\ inflight[i].result # "none"

Answer(i, ok, res) ==
    inflight' = [inflight EXCEPT ![i].result = IF ok THEN "ok" ELSE "error", ![i].res = res]

(* The batch u of a handler or continuation is applied, the page renders and
   its effects run; router.push leaves the page.  The model follows the page
   and the backend until the page is left. *)
Settled(f, nav, rest) ==
    /\ cal' = IF nav THEN closeSockets(f.s) ELSE f.s
    /\ inflight' = rest \o f.reqs
    /\ mounted' = ~nav

Commit(u, rest) == mounted /\ Settled(Settle(cal, u), u.nav, rest)

ClientOnly == UNCHANGED <<sessions, nextSid, store, tpVars, homeVars>>

BackendOnly == mounted /\ UNCHANGED <<cal, mounted, tpVars, homeVars>>

(* --- backend: requests --- *)

ServeFetchRobots(i) ==
    /\ Pending(i, "fetchRobots")
    /\ Answer(i, TRUE, [NoRes EXCEPT !.robots = <<storedRobot(store)>>])
    /\ UNCHANGED <<sessions, nextSid, store>>
    /\ BackendOnly

(* The request does not reach the backend, or the backend answers 5xx *)
RequestFails(i) ==
    /\ i \in 1..Len(inflight)
    /\ inflight[i].result = "none"
    /\ Answer(i, FALSE, NoRes)
    /\ UNCHANGED <<sessions, nextSid, store>>
    /\ BackendOnly

ServeStartCalibration(i) ==
    /\ Pending(i, "startCalibration")
    /\ IF nextSid <= MaxSessions
       THEN \E dry \in BOOLEAN :
              /\ sessions' = [s \in DOMAIN sessions \cup {nextSid} |->
                                IF s = nextSid THEN newSession(dry) ELSE sessions[s]]
              /\ nextSid' = nextSid + 1
              /\ Answer(i, TRUE, sessionSnapshot(nextSid, newSession(dry), store))
       ELSE /\ Answer(i, FALSE, NoRes)
            /\ UNCHANGED <<sessions, nextSid>>
    /\ UNCHANGED store
    /\ BackendOnly

ServeCancelCalibration(i) ==
    /\ Pending(i, "cancelCalibration")
    /\ IF inflight[i].sid \in DOMAIN sessions
       THEN /\ sessions' = removeSession(sessions, inflight[i].sid)
            /\ Answer(i, TRUE, NoRes)
       ELSE /\ Answer(i, FALSE, NoRes)
            /\ UNCHANGED sessions
    /\ UNCHANGED <<nextSid, store>>
    /\ BackendOnly

inputText(call) == IF call = "sendCalibrationInput" THEN "c" ELSE ""

ServeInput(i) ==
    /\ i \in 1..Len(inflight)
    /\ inflight[i].call \in {"sendCalibrationEnter", "sendCalibrationInput", "stopCalibration"}
    /\ inflight[i].result = "none"
    /\ LET sid == inflight[i].sid
       IN IF sid \in DOMAIN sessions /\ sessionRunning(sessions[sid])
          THEN /\ sessions' = [sessions EXCEPT
                                 ![sid] = writeInput(sessions[sid], inputText(inflight[i].call))]
               /\ Answer(i, TRUE, NoRes)
          ELSE /\ Answer(i, FALSE, NoRes)
               /\ UNCHANGED sessions
    /\ UNCHANGED <<nextSid, store>>
    /\ BackendOnly

(* Saving persists the joints and finalizes the robot's sessions *)
ServeSaveCalibration(i) ==
    /\ Pending(i, "saveCalibration")
    /\ store' = inflight[i].joints
    /\ sessions' = <<>>
    /\ Answer(i, TRUE, [NoRes EXCEPT !.robot = storedRobot(inflight[i].joints)])
    /\ UNCHANGED nextSid
    /\ BackendOnly

(* Another observer of the session cancels it *)
ExternalCancel(sid) ==
    /\ sid \in DOMAIN sessions
    /\ sessions' = removeSession(sessions, sid)
    /\ UNCHANGED <<inflight, nextSid, store>>
    /\ BackendOnly

(* --- backend: the calibration process --- *)

ProcStep(sid, sess) ==
    /\ sessions' = [sessions EXCEPT ![sid] = sess]
    /\ UNCHANGED <<inflight, nextSid, store>>
    /\ BackendOnly

InPhase(sid, phase) == sid \in DOMAIN sessions /\ sessions[sid].phase = phase

ProcEmitPrompt(sid) ==
    /\ InPhase(sid, "boot")
    /\ \E line \in {PromptLine, PromptLineUpper} :
         ProcStep(sid, [sessions[sid] EXCEPT !.phase = "prompt",
                                             !.logs = Append(sessions[sid].logs, line)])

ProcReady(sid) ==
    /\ InPhase(sid, "boot")
    /\ ProcStep(sid, [sessions[sid] EXCEPT !.phase = "neutral",
                                           !.logs = Append(sessions[sid].logs, NeutralLine)])

(* The process begins to report the range table: one row per joint, each at
   its start position *)
ProcEmitRows(sid) ==
    /\ InPhase(sid, "sweep")
    /\ sessions[sid].ranges = <<>>
    /\ ProcStep(sid, [sessions[sid] EXCEPT
                        !.ranges = [k \in 1..Len(JointOrder) |-> Row(JointOrder[k], 0, 0, 0)]])

(* The operator moves the next joint through its range *)
ProcMoveJoint(sid) ==
    /\ InPhase(sid, "sweep")
    /\ zeroSpanJoints(sessions[sid].ranges) # <<>>
    /\ LET isStuck(k) == ~isMoved(sessions[sid].ranges[k])
           k == firstIndex([n \in 1..Len(JointOrder) |-> n], isStuck)
       IN ProcStep(sid, [sessions[sid] EXCEPT
                           !.ranges[k] = Row(sessions[sid].ranges[k].name, -90, 10, 90)])

ProcExit(sid, code) ==
    /\ sid \in DOMAIN sessions
    /\ LET sess == sessions[sid]
           stuck == unmovedAtExit(sess.ranges)
       IN /\ IF sess.phase = "keeping" THEN code = 0
             ELSE /\ sess.phase = "closing"
                  /\ IF code = 0 THEN zeroSpanJoints(sess.ranges) = <<>> ELSE stuck # <<>>
          /\ ProcStep(sid, onExit([sess EXCEPT
                                      !.logs = IF code = 0 THEN sess.logs
                                               ELSE sess.logs \o <<MarkerLine, ListLine(stuck)>>],
                                   code))

ProcCrash(sid) ==
    /\ sid \in DOMAIN sessions
    /\ sessionRunning(sessions[sid])
    /\ ProcStep(sid, onExit([sessions[sid] EXCEPT !.logs = Append(sessions[sid].logs, CrashLine)],
                             1))

(* The exit of a process that has already exited is notified once more *)
ProcExitAgain(sid, code) ==
    /\ InPhase(sid, "exited")
    /\ ProcStep(sid, onExit(sessions[sid], code))


-----------------------------------------------------------------------------
(* CalibrationPage: websocket messages *)

(* part_001:89-123: the fleet socket delivers the robot list *)
FleetMessage ==
    /\ mounted
    /\ cal.fleetSocket \in {"open", "reopened"}
    /\ Len(inflight) <= MaxInflight
    /\ Commit(SetRobots(Set(Batch(cal), [fleetSocket |-> "open"]), <<storedRobot(store)>>), inflight)
    /\ ClientOnly

(* part_001:275-289: a snapshot of the tracked session *)
sessionSnapshotHandler(u, payload) ==
    LET u1 == IF Len(payload.logs) > 0 THEN SetNew(u, [calibrationLogs |-> payload.logs]) ELSE u
        u2 == Set(u1, [ calibrationRunning |-> payload.running,
                        calibrationReturnCode |-> payload.return_code ])
        u3 == SetNew(u2, [calibrationRanges |-> reduceRanges(payload.ranges)])
    IN IF payload.robot # NoRobot THEN SetTarget(u3, payload.robot, FALSE) ELSE u3

(* part_001:112-115, 297-300: onclose arms the reconnect timer *)
socketClosed(s, socket) == [s EXCEPT ![socket] = "waiting"]

(* part_001:98-100, 249-251: connect(), run by the reconnect timer *)
connect(s, socket) == [s EXCEPT ![socket] = "reopened"]

SocketStep(s) ==
    /\ mounted
    /\ cal' = s
    /\ UNCHANGED <<mounted, inflight>>
    /\ ClientOnly

(* The connection of a socket is lost (network, backend restart) *)
FleetSocketCloses ==
    /\ cal.fleetSocket \in {"open", "reopened"}
    /\ SocketStep(socketClosed(cal, "fleetSocket"))

SessionSocketCloses ==
    /\ cal.sessionSocket \in {"open", "reopened"}
    /\ SocketStep(socketClosed(cal, "sessionSocket"))

(* The reconnect timer fires (1.5 s and 1 s after the close) *)
FleetSocketReconnects ==
    /\ cal.fleetSocket = "waiting"
    /\ SocketStep(connect(cal, "fleetSocket"))

SessionSocketReconnects ==
    /\ cal.sessionSocket = "waiting"
    /\ SocketStep(connect(cal, "sessionSocket"))

(* part_001:257-274: the stream reports an error *)
sessionErrorHandler(u) ==
    LET u1 == Set(u, [ error |-> "Calibration session closed.",
                       calibrationSessionId |-> NoSession,
                       calibrationRunning |-> FALSE ])
        u2 == SetNew(u1, [calibrationRanges |-> <<>>, calibrationLogs |-> <<>>])
        u3 == Set(u2, [calibrationStarted |-> FALSE, calibrationReady |-> FALSE])
    IN Set(SetTarget(u3, NoRobot, FALSE), [calibrationWaitingForOutput |-> FALSE])

SessionMessage ==
    /\ mounted
    /\ cal.calibrationSessionId # NoSession
    /\ cal.sessionSocket \in {"open", "reopened"}
    /\ Len(inflight) <= MaxInflight
    /\ LET sid == cal.calibrationSessionId
           u == Set(Batch(cal), [sessionSocket |-> "open"])
       IN IF sid \in DOMAIN sessions
          THEN Commit(sessionSnapshotHandler(u, sessionSnapshot(sid, sessions[sid], store)),
                      inflight)
          ELSE Commit(sessionErrorHandler(u), inflight)
    /\ ClientOnly

-----------------------------------------------------------------------------
(* CalibrationPage: continuations of the async handlers *)

(* part_001:73-83 *)
refreshRobots(u, handler) ==
    Issue(Set(u, [error |-> NoError]), Req(handler, "fetchRobots", NoSession, NoRobot, <<>>))

refreshRobotsDone(u, req) ==
    IF req.result = "ok" THEN SetRobots(u, req.res.robots)
    ELSE Set(u, [error |-> "request failed"])

FetchRobotsResponse(i) ==
    /\ Answered(i, "refreshRobots", "fetchRobots")
    /\ Commit(refreshRobotsDone(Batch(cal), inflight[i]), Without(inflight, i))
    /\ ClientOnly

(* part_001:166-172: the old session's cancel has returned, whatever it said *)
HandleCalibrateCancelled(i) ==
    /\ Answered(i, "handleCalibrate", "cancelCalibration")
    /\ Commit(handleCalibrateStart(Batch(cal), inflight[i].target, FALSE), Without(inflight, i))
    /\ ClientOnly

(* A start continuation that is never ready at once *)
handleCalibrateStartedNeverReady(u, req) ==
    IF req.result = "ok"
    THEN LET res == req.res
             u1 == Set(u, [calibrationSessionId |-> res.session_id])
             u2 == SetNew(u1, [calibrationLogs |->
                                  IF Len(res.logs) > 0 THEN res.logs ELSE <<SessionCreatedLine>>])
             u3 == Set(u2, [ calibrationRunning |-> res.running,
                             calibrationReturnCode |-> res.return_code ])
             u4 == SetNew(u3, [calibrationRanges |-> reduceRanges(res.ranges)])
             u5 == Set(SetTarget(u4, res.robot, FALSE), [calibrationReady |-> FALSE])
             u6 == IF hasJoints(res.robot)
                   THEN Set(SetNew(u5, [calibrationJoints |-> res.robot.joints]),
                            [jointsRef |-> TRUE])
                   ELSE Set(SetNew(u5, [calibrationJoints |-> seedJoints]),
                            [jointsRef |-> FALSE])
         IN refreshRobots(u6, "handleCalibrate")
    ELSE Set(u, [ error |-> "request failed",
                  calibrationWaitingForOutput |-> FALSE,
                  calibrationStarting |-> FALSE,
                  loading |-> FALSE ])

(* part_001:195-216 and 222-228 *)
handleCalibrateStarted(u, req) ==
    IF req.result = "ok"
    THEN LET res == req.res
             u1 == Set(u, [calibrationSessionId |-> res.session_id])
             u2 == SetNew(u1, [calibrationLogs |->
                                  IF Len(res.logs) > 0 THEN res.logs ELSE <<SessionCreatedLine>>])
             u3 == Set(u2, [ calibrationRunning |-> res.running,
                             calibrationReturnCode |-> res.return_code ])
             u4 == SetNew(u3, [calibrationRanges |-> reduceRanges(res.ranges)])
             u5 == Set(SetTarget(u4, res.robot, FALSE), [calibrationReady |-> res.dry_run])
             u6 == IF hasJoints(res.robot)
                   THEN Set(SetNew(u5, [calibrationJoints |-> res.robot.joints]),
                            [jointsRef |-> TRUE])
                   ELSE Set(SetNew(u5, [calibrationJoints |-> seedJoints]),
                            [jointsRef |-> FALSE])
         IN refreshRobots(u6, "handleCalibrate")
    ELSE Set(u, [ error |-> "request failed",
                  calibrationWaitingForOutput |-> FALSE,
                  calibrationStarting |-> FALSE,
                  loading |-> FALSE ])

HandleCalibrateStarted(i) ==
    /\ Answered(i, "handleCalibrate", "startCalibration")
    /\ Commit(handleCalibrateStarted(Batch(cal), inflight[i]), Without(inflight, i))
    /\ ClientOnly

(* part_001:216-221 and 225-228 *)
HandleCalibrateRefreshed(i) ==
    /\ Answered(i, "handleCalibrate", "fetchRobots")
    /\ Commit(Set(refreshRobotsDone(Batch(cal), inflight[i]),
                  [ calibrationStarted |-> FALSE,
                    calibrationStarting |-> FALSE,
                    loading |-> FALSE ]),
              Without(inflight, i))
    /\ ClientOnly

(* part_001:426-440 *)
saveCalibrationDone(u, req) ==
    IF req.result = "ok"
    THEN LET updated == req.res.robot
             replace(x) == IF x.id = updated.id THEN updated ELSE x
             list == [k \in 1..Len(u.s.robots) |-> replace(u.s.robots[k])]
             u1 == cleanupCalibrationSession(SetRobots(u, list))
             u2 == SetTarget(u1, updated, findRobot(list) = updated)
         IN Set(u2, [ calibrationReady |-> FALSE,
                      completionOverlay |-> TRUE,
                      redirectTimer |-> TRUE,
                      loading |-> FALSE,
                      calibrationSaving |-> FALSE ])
    ELSE Set(u, [error |-> "request failed", loading |-> FALSE, calibrationSaving |-> FALSE])

SaveCalibrationResponse(i) ==
    /\ Answered(i, "saveCalibrationFlow", "saveCalibration")
    /\ Commit(saveCalibrationDone(Batch(cal), inflight[i]), Without(inflight, i))
    /\ ClientOnly

(* part_001:432-434: the timer set after a save fires *)
SaveRedirect ==
    /\ mounted
    /\ cal.redirectTimer
    /\ mounted' = FALSE
    /\ cal' = closeSockets(cal)
    /\ UNCHANGED inflight
    /\ ClientOnly

(* A continuation that takes the sweep as started whatever the answer *)
sendEnterDoneWhateverTheAnswer(u, req) ==
    IF req.handler = "startSweepFromIntro"
    THEN Set(u, [calibrationStarted |-> TRUE, introVisible |-> FALSE])
    ELSE Set(u, [calibrationStarted |-> TRUE])

(* part_001:458-463 and 468-473 *)
sendEnterDone(u, req) ==
    IF req.result = "ok"
    THEN IF req.handler = "startSweepFromIntro"
         THEN Set(u, [calibrationStarted |-> TRUE, introVisible |-> FALSE])
         ELSE Set(u, [calibrationStarted |-> TRUE])
    ELSE Set(u, [error |-> "request failed"])

SendEnterResponse(i) ==
    /\ i \in 1..Len(inflight)
    /\ \E h \in {"sendEnterToCalibration", "startSweepFromIntro"} :
         Answered(i, h, "sendCalibrationEnter")
    /\ Commit(sendEnterDone(Batch(cal), inflight[i]), Without(inflight, i))
    /\ ClientOnly

(* A continuation that clears the prompt without marking it handled *)
continueOverrideDoneUnmarked(u, req) ==
    IF req.result = "ok"
    THEN Set(u, [calibrationOverridePrompt |-> NoPrompt, calibrationStarted |-> FALSE])
    ELSE Set(u, [error |-> "request failed"])

(* part_001:482-489 *)
continueOverrideDone(u, req) ==
    IF req.result = "ok"
    THEN Set(u, [ calibrationOverridePrompt |-> NoPrompt,
                  calibrationOverrideHandled |-> TRUE,
                  calibrationStarted |-> FALSE ])
    ELSE Set(u, [error |-> "request failed"])

ContinueOverrideResponse(i) ==
    /\ Answered(i, "continueCalibrationOverride", "sendCalibrationInput")
    /\ Commit(continueOverrideDone(Batch(cal), inflight[i]), Without(inflight, i))
    /\ ClientOnly


(* part_001:506-512: the finally block of cancelCalibrationOverride *)
leaveAfterOverrideCancel(u) ==
    LET u1 == Set(u, [calibrationOverridePrompt |-> NoPrompt, calibrationOverrideHandled |-> TRUE])
        u2 == SetTarget(cleanupCalibrationSession(u1), NoRobot, FALSE)
    IN Navigate(Set(u2, [calibrationReady |-> FALSE, calibrationWaitingForOutput |-> FALSE]))

(* part_001:499-513 *)
cancelOverrideDone(u, req) ==
    leaveAfterOverrideCancel(IF req.result = "ok" THEN u ELSE Set(u, [error |-> "request failed"]))

CancelOverrideResponse(i) ==
    /\ Answered(i, "cancelCalibrationOverride", "sendCalibrationEnter")
    /\ Commit(cancelOverrideDone(Batch(cal), inflight[i]), Without(inflight, i))
    /\ ClientOnly

(* A continuation that sends the plain ENTER whatever the stop request said *)
stopCalibrationDoneAlwaysEnter(u, req) ==
    Issue(u, Req("stopCalibrationSweep", "sendCalibrationEnter", req.sid, NoRobot, <<>>))

(* part_001:521-525: stopCalibration has returned; on failure ENTER is tried *)
stopCalibrationDone(u, req) ==
    IF req.result = "ok" THEN u
    ELSE Issue(u, Req("stopCalibrationSweep", "sendCalibrationEnter", req.sid, NoRobot, <<>>))

StopCalibrationResponse(i) ==
    /\ Answered(i, "stopCalibrationSweep", "stopCalibration")
    /\ Commit(stopCalibrationDone(Batch(cal), inflight[i]), Without(inflight, i))
    /\ ClientOnly

(* part_001:525-531 *)
stopFallbackDone(u, req) ==
    IF req.result = "ok" THEN u
    ELSE Set(u, [error |-> "request failed", calibrationSaving |-> FALSE])

StopFallbackResponse(i) ==
    /\ Answered(i, "stopCalibrationSweep", "sendCalibrationEnter")
    /\ Commit(stopFallbackDone(Batch(cal), inflight[i]), Without(inflight, i))
    /\ ClientOnly

(* part_001:536-541 and 548-553: what cancelCalibrationFlow always ends with *)
leaveAfterCancel(u) ==
    Navigate(Set(cleanupCalibrationSession(u),
                 [calibrationReady |-> FALSE, calibrationWaitingForOutput |-> FALSE]))

(* part_001:543-553 *)
cancelFlowDone(u, req) ==
    leaveAfterCancel(IF req.result = "ok" THEN u ELSE Set(u, [error |-> "request failed"]))

CancelFlowResponse(i) ==
    /\ Answered(i, "cancelCalibrationFlow", "cancelCalibration")
    /\ Commit(cancelFlowDone(Batch(cal), inflight[i]), Without(inflight, i))
    /\ ClientOnly

-----------------------------------------------------------------------------
(* CalibrationPage: the operator's clicks.  A button can be used when it is
   rendered and not disabled; the operator lets at most MaxInflight requests
   of the page go unanswered. *)

(* part_001:448-457: sendEnterToCalibration up to its await *)
sendEnterToCalibration(r, u, handler) ==
    IF r.calibrationOverridePrompt # NoPrompt THEN u
    ELSE IF r.calibrationSessionId = NoSession
    THEN Set(u, [error |-> "No calibration session is active."])
    ELSE Issue(u, Req(handler, "sendCalibrationEnter", r.calibrationSessionId,
                      NoRobot, <<>>))

(* part_001:475-481 *)
continueCalibrationOverride(r, u) ==
    IF r.calibrationSessionId = NoSession THEN u
    ELSE IF ~r.calibrationOverridePrompt.ready THEN u
    ELSE Issue(u, Req("continueCalibrationOverride", "sendCalibrationInput",
                      r.calibrationSessionId, NoRobot, <<>>))

(* part_001:492-500 *)
cancelCalibrationOverride(r, u) ==
    IF r.calibrationSessionId = NoSession
    THEN Navigate(Set(u, [ calibrationOverridePrompt |-> NoPrompt,
                           calibrationOverrideHandled |-> TRUE ]))
    ELSE Issue(u, Req("cancelCalibrationOverride", "sendCalibrationEnter",
                      r.calibrationSessionId, NoRobot, <<>>))

(* part_001:515-521 *)
stopCalibrationSweep(r, u) ==
    IF r.calibrationSessionId = NoSession
    THEN Set(u, [error |-> "No calibration session is active."])
    ELSE Issue(Set(u, [calibrationSaving |-> TRUE]),
               Req("stopCalibrationSweep", "stopCalibration", r.calibrationSessionId,
                   NoRobot, <<>>))

(* part_001:535-543 *)
cancelCalibrationFlow(r, u) ==
    IF r.calibrationSessionId = NoSession THEN leaveAfterCancel(u)
    ELSE Issue(u, Req("cancelCalibrationFlow", "cancelCalibration", r.calibrationSessionId,
                      NoRobot, <<>>))

OperatorCan == mounted /\ Len(inflight) < MaxInflight

(* The Cancel buttons are never disabled: they can be pressed again while the
   cancel request of an earlier press is on its way *)
OperatorCanCancel ==
    \/ OperatorCan
    \/ /\ mounted
       /\ Len(inflight) < MaxCancels
       /\ \A i \in 1..Len(inflight) : inflight[i].handler = "cancelCalibrationFlow"

Click(u) == Commit(u, inflight) /\ ClientOnly

(* part_001:801-811: the Start / End calibration button *)
mainButtonEnabled(r) ==
    /\ r.calibrationTarget # NoRobot
    /\ ~r.calibrationReady
    /\ r.calibrationSessionId # NoSession
    /\ ~calibrationFailed(r)
    /\ r.calibrationOverridePrompt = NoPrompt
    /\ ~r.calibrationSaving
    /\ ~(r.introVisible /\ ~r.calibrationStarted)

(* part_001:579 *)
ClickBack ==
    /\ OperatorCan
    /\ Click(Navigate(Batch(cal)))

(* part_001:623 *)
ClickRefresh ==
    /\ OperatorCan
    /\ cal.calibrationTarget # NoRobot /\ ~cal.loading
    /\ Click(refreshRobots(Batch(cal), "refreshRobots"))

(* part_001:626, 976, 1054 *)
ClickCancel ==
    /\ OperatorCanCancel
    /\ Click(cancelCalibrationFlow(cal, Batch(cal)))

(* part_001:982-986 *)
ClickIntroNext ==
    /\ OperatorCan
    /\ cal.introVisible /\ cal.calibrationTarget # NoRobot
    /\ ~cal.calibrationWaitingForOutput /\ cal.calibrationSessionId # NoSession
    /\ Click(sendEnterToCalibration(cal, Batch(cal), "startSweepFromIntro"))

(* part_001:803, not yet started *)
ClickStartCalibration ==
    /\ OperatorCan
    /\ mainButtonEnabled(cal) /\ ~cal.calibrationStarted
    /\ Click(sendEnterToCalibration(cal, Batch(cal), "sendEnterToCalibration"))

(* part_001:803, started *)
ClickEndCalibration ==
    /\ OperatorCan
    /\ mainButtonEnabled(cal) /\ cal.calibrationStarted
    /\ Click(stopCalibrationSweep(cal, Batch(cal)))

(* part_001:884-890 *)
ClickContinueOverride ==
    /\ OperatorCan
    /\ cal.calibrationOverridePrompt # NoPrompt /\ cal.calibrationOverridePrompt.ready
    /\ Click(continueCalibrationOverride(cal, Batch(cal)))

(* part_001:871, 891-893 *)
ClickCancelOverride ==
    /\ OperatorCan
    /\ cal.calibrationOverridePrompt # NoPrompt
    /\ Click(cancelCalibrationOverride(cal, Batch(cal)))

(* part_001:849-855 *)
ClickRestart ==
    /\ OperatorCan
    /\ cal.calibrationTarget # NoRobot /\ ~cal.calibrationReady /\ calibrationFailed(cal)
    /\ Click(handleCalibrate(cal, Batch(cal)))

(* part_001:905 *)
ClickCloseErrorModal ==
    /\ OperatorCan
    /\ cal.calibrationErrorModal
    /\ Click(Set(Batch(cal), [calibrationErrorModal |-> FALSE]))

(* part_001:918-927 *)
ClickRestartFromModal ==
    /\ OperatorCan
    /\ cal.calibrationErrorModal
    /\ Click(handleCalibrate(cal, Set(Batch(cal), [calibrationErrorModal |-> FALSE])))

(* part_001:929-937 *)
ClickCancelFromModal ==
    /\ OperatorCan
    /\ cal.calibrationErrorModal
    /\ Click(cancelCalibrationFlow(cal, Set(Batch(cal), [calibrationErrorModal |-> FALSE])))

-----------------------------------------------------------------------------
Requests == 1..(MaxInflight + 3)

SessionIds == 1..MaxSessions

BackendStep ==
    \/ \E i \in Requests : ServeFetchRobots(i)
    \/ \E i \in Requests : RequestFails(i)
    \/ \E i \in Requests : ServeStartCalibration(i)
    \/ \E i \in Requests : ServeCancelCalibration(i)
    \/ \E i \in Requests : ServeInput(i)
    \/ \E i \in Requests : ServeSaveCalibration(i)
    \/ \E sid \in SessionIds : ExternalCancel(sid)
    \/ \E sid \in SessionIds : ProcEmitPrompt(sid)
    \/ \E sid \in SessionIds : ProcReady(sid)
    \/ \E sid \in SessionIds : ProcEmitRows(sid)
    \/ \E sid \in SessionIds : ProcMoveJoint(sid)
    \/ \E sid \in SessionIds : \E code \in {0, 1} : ProcExit(sid, code)
    \/ \E sid \in SessionIds : ProcCrash(sid)
    \/ \E sid \in SessionIds : \E code \in {0, 1} : ProcExitAgain(sid, code)

ResponseStep ==
    \/ \E i \in Requests : FetchRobotsResponse(i)
    \/ \E i \in Requests : HandleCalibrateCancelled(i)
    \/ \E i \in Requests : HandleCalibrateStarted(i)
    \/ \E i \in Requests : HandleCalibrateRefreshed(i)
    \/ \E i \in Requests : SaveCalibrationResponse(i)
    \/ \E i \in Requests : SendEnterResponse(i)
    \/ \E i \in Requests : ContinueOverrideResponse(i)
    \/ \E i \in Requests : CancelOverrideResponse(i)
    \/ \E i \in Requests : StopCalibrationResponse(i)
    \/ \E i \in Requests : StopFallbackResponse(i)
    \/ \E i \in Requests : CancelFlowResponse(i)

PageStep ==
    \/ FleetMessage
    \/ SessionMessage
    \/ SaveRedirect
    \/ ClickBack
    \/ ClickRefresh
    \/ ClickCancel
    \/ ClickIntroNext
    \/ ClickStartCalibration
    \/ ClickEndCalibration
    \/ ClickContinueOverride
    \/ ClickCancelOverride
    \/ ClickRestart
    \/ ClickCloseErrorModal
    \/ ClickRestartFromModal
    \/ ClickCancelFromModal

Next == BackendStep \/ ResponseStep \/ PageStep

Spec == InitCal /\ [][Next]_vars


-----------------------------------------------------------------------------
(* Properties *)

TypeOK ==
    /\ mounted \in BOOLEAN
    /\ nextSid \in 1..(MaxSessions + 1)
    /\ DOMAIN sessions \subseteq SessionIds
    /\ cal.calibrationSessionId \in {NoSession} \cup SessionIds
    /\ cal.calibrationReturnCode \in {NoCode, 0, 1}

PendingCalls(q, call) == {i \in 1..Len(q) : q[i].call = call /\ q[i].result = "none"}

(* A request for call leaves the page in this step *)
Issued(call) ==
    Cardinality(PendingCalls(inflight', call)) > Cardinality(PendingCalls(inflight, call))

hasPromptLine(logs) ==
    \E i \in 1..Len(logs) : includes(toLowerCase(logs[i]), OverrideMarker)

rowNames(ranges) == [i \in 1..Len(ranges) |-> ranges[i].name]

(* C1: when a session whose override prompt was confirmed and whose sweep was
   started is seen to have stopped with return code 0 and range rows for the
   joints J, the page is Captured in that same step: calibrationReady is true,
   calibrationFailed is false, the error dialog is closed, and
   calibrationJoints holds exactly the joints of J. *)
C1_CapturedAfterOverrideAndSweep ==
    [][ ( /\ cal.calibrationSessionId # NoSession
          /\ cal.calibrationOverrideHandled
          /\ cal.calibrationStarted
          /\ ~cal.calibrationReady
          /\ cal'.calibrationSessionId = cal.calibrationSessionId
          /\ ~cal'.calibrationRunning
          /\ cal'.calibrationReturnCode = 0
          /\ cal'.calibrationRanges # <<>> )
        => ( /\ cal'.calibrationReady
             /\ ~cal'.calibrationStarted
             /\ ~calibrationFailed(cal')
             /\ ~cal'.calibrationErrorModal
             /\ jointNames(cal'.calibrationJoints) = rowNames(cal'.calibrationRanges)
             /\ \A i \in 1..Len(cal'.calibrationJoints) :
                  /\ cal'.calibrationJoints[i].min = cal'.calibrationRanges[i].min
                  /\ cal'.calibrationJoints[i].max = cal'.calibrationRanges[i].max
                  /\ cal'.calibrationJoints[i].current = cal'.calibrationRanges[i].pos ) ]_vars

C1_Witness ==
    /\ cal.calibrationSessionId # NoSession
    /\ hasPromptLine(cal.calibrationLogs)
    /\ cal.calibrationOverrideHandled
    /\ cal.calibrationReady
    /\ ~cal.calibrationRunning
    /\ cal.calibrationReturnCode = 0
    /\ jointNames(cal.calibrationJoints) = JointOrder
    /\ rowNames(cal.calibrationRanges) = JointOrder

(* C2: a tracked session that has stopped with return code 0 and for which no
   range row was received is not Captured: calibrationReady is false. *)
C2_NoCaptureWithoutRows ==
    ( /\ cal.calibrationSessionId # NoSession
      /\ ~cal.calibrationRunning
      /\ cal.calibrationReturnCode = 0
      /\ cal.calibrationRanges = <<>> )
    => ~cal.calibrationReady


IssuedBy(handler, call) ==
    LET mine(q) == {i \in PendingCalls(q, call) : q[i].handler = handler}
    IN Cardinality(mine(inflight')) > Cardinality(mine(inflight))

(* The continuation of the answered request i runs in this step *)
Consumed(i) ==
    /\ i \in 1..Len(inflight)
    /\ inflight[i].result # "none"
    /\ Len(inflight') >= Len(inflight) - 1
    /\ SubSeq(inflight', 1, Len(inflight) - 1) = Without(inflight, i)
    /\ ~( /\ Len(inflight') >= Len(inflight)
          /\ SubSeq(inflight', 1, Len(inflight)) = inflight )

ConsumedFrom(handlers, call, result) ==
    \E i \in 1..Len(inflight) :
        /\ Consumed(i)
        /\ inflight[i].handler \in handlers
        /\ inflight[i].call = call
        /\ inflight[i].result = result

BeginSweep == {"sendEnterToCalibration", "startSweepFromIntro"}

(* C3: a saveCalibration request leaves the page only when a session is
   tracked, its process is not running and its return code is 0. *)
C3_SaveOnlyAfterCleanExit ==
    [][ Issued("saveCalibration")
        => ( /\ cal'.calibrationSessionId # NoSession
             /\ ~cal'.calibrationRunning
             /\ cal'.calibrationReturnCode = 0 ) ]_vars

(* C4: the override prompt is pending exactly when a session is tracked, a
   log line contains the override marker whatever its case, and the prompt
   has not been handled; a pending prompt belongs to the tracked session. *)
C4_PromptPendingExactlyWhen ==
    /\ (cal.calibrationOverridePrompt # NoPrompt)
       <=> ( /\ cal.calibrationSessionId # NoSession
             /\ hasPromptLine(cal.calibrationLogs)
             /\ ~cal.calibrationOverrideHandled )
    /\ cal.calibrationOverridePrompt # NoPrompt
       => /\ cal.calibrationOverridePrompt.sessionId = cal.calibrationSessionId
          /\ cal.calibrationOverridePrompt.ready

C4_Witness ==
    /\ cal.calibrationOverridePrompt # NoPrompt
    /\ cal.calibrationOverridePrompt.line = PromptLineUpper
    /\ cal.calibrationSessionId # NoSession

(* C5 as stated: after either answer to the override prompt has succeeded
   the prompt is handled, the session is still tracked and the sweep is not
   started. *)
C5_AnswerReturnsToAwaitingOutput ==
    [][ ( /\ cal.calibrationSessionId # NoSession
          /\ \/ ConsumedFrom({"continueCalibrationOverride"}, "sendCalibrationInput", "ok")
             \/ ConsumedFrom({"cancelCalibrationOverride"}, "sendCalibrationEnter", "ok") )
        => ( /\ cal'.calibrationOverrideHandled
             /\ cal'.calibrationSessionId = cal.calibrationSessionId
             /\ ~cal'.calibrationStarted ) ]_vars

(* C5, override-continue only: after the override-continue input has
   succeeded the prompt is cleared and handled, the session is still tracked
   and the sweep is not started; while the session stays tracked the prompt
   stays handled and is not raised again. *)
C5_ContinueMarksHandled ==
    [][ /\ ( /\ cal.calibrationSessionId # NoSession
             /\ ConsumedFrom({"continueCalibrationOverride"}, "sendCalibrationInput", "ok") )
           => ( /\ cal'.calibrationOverrideHandled
                /\ cal'.calibrationOverridePrompt = NoPrompt
                /\ cal'.calibrationSessionId = cal.calibrationSessionId
                /\ ~cal'.calibrationStarted )
        /\ ( /\ cal.calibrationOverrideHandled
             /\ cal.calibrationSessionId # NoSession
             /\ cal'.calibrationSessionId = cal.calibrationSessionId )
           => ( /\ cal'.calibrationOverrideHandled
                /\ cal'.calibrationOverridePrompt = NoPrompt ) ]_vars

C5_Witness ==
    /\ cal.calibrationSessionId # NoSession
    /\ cal.calibrationOverrideHandled
    /\ cal.calibrationOverridePrompt = NoPrompt
    /\ hasPromptLine(cal.calibrationLogs)
    /\ \E i \in 1..Len(cal.calibrationLogs) : cal.calibrationLogs[i] = NeutralLine

(* C6: the page never drops a session whose process is still blocked on the
   override prompt: a cancel that arrives while the override decision is
   pending has answered the prompt before the session is let go. *)
C6_NoDropWhileBlockedOnPrompt ==
    [][ ( /\ cal.calibrationSessionId # NoSession
          /\ cal'.calibrationSessionId = NoSession )
        => ~( /\ cal.calibrationSessionId \in DOMAIN sessions'
              /\ sessions'[cal.calibrationSessionId].phase = "prompt" ) ]_vars

(* C7: calibrationStarted becomes true only in the continuation of a
   begin-sweep ENTER that succeeded; such an ENTER is sent only for the
   tracked session and with no override prompt pending; when it fails,
   calibrationStarted is unchanged and an error is shown. *)
C7_StartedOnlyBySuccessfulEnter ==
    [][ /\ (~cal.calibrationStarted /\ cal'.calibrationStarted)
           => ConsumedFrom(BeginSweep, "sendCalibrationEnter", "ok")
        /\ \A h \in BeginSweep :
             IssuedBy(h, "sendCalibrationEnter")
             => /\ cal.calibrationSessionId # NoSession
                /\ cal.calibrationOverridePrompt = NoPrompt
                /\ inflight'[Len(inflight')].sid = cal.calibrationSessionId
        /\ ConsumedFrom(BeginSweep, "sendCalibrationEnter", "error")
           => /\ cal'.calibrationStarted = cal.calibrationStarted
              /\ cal'.error # NoError ]_vars

C7_Witness ==
    /\ cal.calibrationStarted
    /\ cal.calibrationSessionId # NoSession
    /\ cal.calibrationSessionId \in DOMAIN sessions
    /\ sessions[cal.calibrationSessionId].phase = "sweep"

(* C8: once captured, calibrationJoints keeps its values while the session
   stays tracked and Captured. *)
C8_CapturedJointsFrozen ==
    [][ ( /\ cal.calibrationSessionId # NoSession
          /\ cal.calibrationReady
          /\ ~cal.calibrationRunning
          /\ cal.calibrationReturnCode = 0
          /\ cal'.calibrationSessionId = cal.calibrationSessionId
          /\ cal'.calibrationReady )
        => cal'.calibrationJoints = cal.calibrationJoints ]_vars

(* C9: when the tracked process has stopped with a non-zero return code, the
   saving flag is cleared, no save is sent, the error dialog opens as the
   failure is first seen, and the stuck joints shown are, without repeats,
   the joints listed in the logs after the same-min-and-max marker together
   with the joints whose |max - min| is below 1. *)
C9_FailedState ==
    [][ ( /\ ~cal'.calibrationRunning
          /\ cal'.calibrationReturnCode \notin {NoCode, 0} )
        => ( /\ ~cal'.calibrationSaving
             /\ ~Issued("saveCalibration")
             /\ ~(~cal.calibrationRunning /\ cal.calibrationReturnCode \notin {NoCode, 0})
                => cal'.calibrationErrorModal
             /\ Range(cal'.calibrationErrorJoints)
                = Range(extractUnmovedJoints(cal'.calibrationLogs))
                  \cup {cal'.calibrationRanges[i].name :
                          i \in {k \in 1..Len(cal'.calibrationRanges) :
                                   abs(cal'.calibrationRanges[k].max
                                       - cal'.calibrationRanges[k].min) < 1}}
             /\ Cardinality(Range(cal'.calibrationErrorJoints))
                = Len(cal'.calibrationErrorJoints) ) ]_vars

C9_Witness ==
    /\ calibrationFailed(cal)
    /\ cal.calibrationSessionId # NoSession
    /\ cal.calibrationErrorModal
    /\ extractUnmovedJoints(cal.calibrationLogs) # <<>>
    /\ zeroSpanJoints(cal.calibrationRanges) # <<>>
    /\ Len(cal.calibrationErrorJoints) = Len(JointOrder) - 1


-----------------------------------------------------------------------------
(* The teleoperation page and the backend it talks to.  The backend is
   modelled from the specification (PresencePoller, TeleopOrchestrator). *)

Statuses == {"online", "offline"}

fleetRobots(f) ==
    << [id |-> LeaderId, status |-> f.leader], [id |-> FollowerId, status |-> f.follower] >>

CalibrationClosed ==
    /\ cal = closeSockets(initialCal)
    /\ mounted = FALSE
    /\ inflight = <<>>
    /\ sessions = <<>>
    /\ nextSid = 1
    /\ store = <<>>

(* First render: the reset effect (TeleopClientPage.tsx:151-163) leaves the
   initial state as it is; the mount effect has called fetchRobots. *)
InitTeleop ==
    /\ tp = initialTp
    /\ tpInflight = << TpReq("load", "none") >>
    /\ fleet \in [leader : Statuses, follower : Statuses]
    /\ teleop = NoTeleop
    /\ now = 0
    /\ CalibrationClosed
    /\ HomeClosed

TeleopPending(i, handler) ==
    /\ tp.mounted
    /\ i \in 1..Len(tpInflight)
    /\ tpInflight[i].handler = handler
    /\ tpInflight[i].result = "none"

TeleopAnswered(i, handler) ==
    /\ tp.mounted
    /\ i \in 1..Len(tpInflight)
    /\ tpInflight[i].handler = handler
    /\ tpInflight[i].result # "none"

teleopRunning(t) == t.phase \in {"starting", "running"}

(* --- backend --- *)

(* A device is plugged in or unplugged; the poller sees it and the fleet
   socket delivers the new robot list (TeleopClientPage.tsx:111-142) *)
PresenceChange(role) ==
    /\ tp.mounted
    /\ fleet' = [fleet EXCEPT ![role] = IF fleet[role] = "online" THEN "offline" ELSE "online"]
    /\ tp' = teleopSetRobots(tp, fleetRobots(fleet'), now)
    /\ UNCHANGED <<tpInflight, teleop, now, calVars, homeVars>>

TeleopServeLoad(i) ==
    /\ TeleopPending(i, "load")
    /\ tpInflight' = [tpInflight EXCEPT ![i].result = "ok", ![i].robots = fleetRobots(fleet)]
    /\ UNCHANGED <<tp, fleet, teleop, now, calVars, homeVars>>

TeleopRequestFails(i) ==
    /\ tp.mounted
    /\ i \in 1..Len(tpInflight)
    /\ tpInflight[i].result = "none"
    /\ tpInflight' = [tpInflight EXCEPT ![i].result = "error"]
    /\ UNCHANGED <<tp, fleet, teleop, now, calVars, homeVars>>

(* TeleopOrchestrator start: rejected unless both devices are online; a
   running session of the pair is replaced *)
TeleopServeStart(i) ==
    /\ TeleopPending(i, "start")
    /\ IF fleet.leader = "online" /\ fleet.follower = "online" /\ teleop.starts < MaxTeleopStarts
       THEN \E dry \in BOOLEAN :
              /\ teleop' = [ sid |-> teleop.starts + 1,
                             phase |-> IF dry THEN "dry" ELSE "starting",
                             rc |-> NoCode,
                             logs |-> <<>>,
                             starts |-> teleop.starts + 1 ]
              /\ tpInflight' = [tpInflight EXCEPT ![i].result = "ok",
                                                  ![i].session_id = teleop.starts + 1,
                                                  ![i].dry_run = dry]
       ELSE /\ tpInflight' = [tpInflight EXCEPT ![i].result = "error"]
            /\ UNCHANGED teleop
    /\ UNCHANGED <<tp, fleet, now, calVars, homeVars>>

TeleopServeStop(i) ==
    /\ TeleopPending(i, "stop")
    /\ teleop' = IF teleopRunning(teleop)
                 THEN [teleop EXCEPT !.phase = "exited", !.rc = 0]
                 ELSE teleop
    /\ tpInflight' = [tpInflight EXCEPT ![i].result = "ok"]
    /\ UNCHANGED <<tp, fleet, now, calVars, homeVars>>

(* The teleop process reports its first loop timing *)
TeleopProcConfirm ==
    /\ tp.mounted
    /\ teleop.phase = "starting"
    /\ teleop' = [teleop EXCEPT !.phase = "running", !.logs = Append(teleop.logs, TimeLine)]
    /\ UNCHANGED <<tp, tpInflight, fleet, now, calVars, homeVars>>

(* The teleop process loses a device and exits *)
TeleopProcFault ==
    /\ tp.mounted
    /\ teleopRunning(teleop)
    /\ \E line \in {LeaderFaultLine, PortFaultLine} :
         teleop' = [teleop EXCEPT !.phase = "exited", !.rc = 1,
                                  !.logs = Append(teleop.logs, line)]
    /\ UNCHANGED <<tp, tpInflight, fleet, now, calVars, homeVars>>

(* The running teleop process reports a fault of the follower in its output
   and keeps running *)
TeleopProcWarn ==
    /\ tp.mounted
    /\ teleop.phase = "running"
    /\ ~someLineIncludes(teleop.logs, errorMarkers)
    /\ teleop' = [teleop EXCEPT !.logs = Append(teleop.logs, FollowerFaultLine)]
    /\ UNCHANGED <<tp, tpInflight, fleet, now, calVars, homeVars>>

Tick ==
    /\ tp.mounted
    /\ now + TickMs <= MaxNow
    /\ now' = now + TickMs
    /\ UNCHANGED <<tp, tpInflight, fleet, teleop, calVars, homeVars>>


(* --- TeleopPage: messages and continuations --- *)

TeleopBackendSame == UNCHANGED <<fleet, teleop, now, calVars, homeVars>>

(* TeleopClientPage.tsx:111-142: the fleet socket delivers the robot list
   once more *)
TeleopFleetMessage ==
    /\ tp.mounted
    /\ tp' = teleopSetRobots(tp, fleetRobots(fleet), now)
    /\ UNCHANGED tpInflight
    /\ TeleopBackendSame

(* TeleopClientPage.tsx:99-109 *)
TeleopLoadResponse(i) ==
    /\ TeleopAnswered(i, "load")
    /\ tp' = IF tpInflight[i].result = "ok"
             THEN teleopSetRobots(tp, tpInflight[i].robots, now)
             ELSE [tp EXCEPT !.error = "request failed"]
    /\ tpInflight' = Without(tpInflight, i)
    /\ TeleopBackendSame

(* TeleopClientPage.tsx:205: `Teleop exited during startup (code=${return_code}).` *)
startupExitMessage(code) ==
    IF code = 0 THEN "Teleop exited during startup (code=0)."
    ELSE "Teleop exited during startup (code=1)."

(* An onmessage that does not look at the return code *)
teleopSessionHandlerIgnoringExit(s, payload) ==
    LET armed == s.teleopStarting \/ s.running
        inferred == IF armed THEN inferDisconnectFromLogs(payload.logs) ELSE ""
        s1 == [s EXCEPT !.logs = payload.logs, !.running = payload.running]
        s2 == IF inferred = "leader" /\ s.socketLeader # NoDevice
              THEN markDisconnected(s1, <<"leader">>, TRUE)
              ELSE IF inferred = "follower" /\ s.socketFollower # NoDevice
              THEN markDisconnected(s1, <<"follower">>, TRUE)
              ELSE s1
    IN IF s.teleopStarting /\ isTeleopConfirmedStartedFromLogs(payload.logs)
       THEN [s2 EXCEPT !.teleopStarting = FALSE, !.safetyModal = FALSE]
       ELSE s2

(* TeleopClientPage.tsx:174-209: onmessage of the session socket.  The refs
   hold the teleopStarting and running of the last render. *)
teleopSessionHandler(s, payload) ==
    LET armed == s.teleopStarting \/ s.running
        inferred == IF armed THEN inferDisconnectFromLogs(payload.logs) ELSE ""
        s1 == [s EXCEPT !.logs = payload.logs, !.running = payload.running]
        s2 == IF inferred = "leader" /\ s.socketLeader # NoDevice
              THEN markDisconnected(s1, <<"leader">>, TRUE)
              ELSE IF inferred = "follower" /\ s.socketFollower # NoDevice
              THEN markDisconnected(s1, <<"follower">>, TRUE)
              ELSE s1
        s3 == IF s.teleopStarting /\ isTeleopConfirmedStartedFromLogs(payload.logs)
              THEN [s2 EXCEPT !.teleopStarting = FALSE, !.safetyModal = FALSE]
              ELSE s2
    IN IF s.teleopStarting /\ payload.return_code # NoCode /\ ~payload.running
       THEN [s3 EXCEPT !.teleopStarting = FALSE, !.error = startupExitMessage(payload.return_code)]
       ELSE s3

TeleopSessionMessage ==
    /\ tp.mounted
    /\ tp.sessionId # NoSession
    /\ tp.sessionSocket = "open"
    /\ teleop.sid = tp.sessionId
    /\ tp' = teleopSessionHandler(tp, [ logs |-> teleop.logs,
                                        running |-> teleopRunning(teleop),
                                        return_code |-> teleop.rc ])
    /\ UNCHANGED tpInflight
    /\ TeleopBackendSame

(* The connection of the session socket is lost (network, backend restart).
   TeleopClientPage.tsx:165-221 sets no onclose handler: nothing follows. *)
TeleopSessionSocketCloses ==
    /\ tp.mounted
    /\ tp.sessionSocket = "open"
    /\ tp' = [tp EXCEPT !.sessionSocket = "closed"]
    /\ UNCHANGED tpInflight
    /\ TeleopBackendSame

(* TeleopClientPage.tsx:270-281: start() up to the await of startTeleop *)
start(s, clock) ==
    IF s.leader = NoDevice \/ s.follower = NoDevice
    THEN [s |-> [s EXCEPT !.error = "Leader or follower missing."], reqs |-> <<>>]
    ELSE [s |-> [s EXCEPT !.loading = TRUE,
                          !.teleopStarting = TRUE,
                          !.suppressDisconnectModalUntil = clock + 2500,
                          !.error = NoError,
                          !.logs = <<StartingLine>>],
          reqs |-> << TpReq("start", "none") >>]

(* A start whose acceptance alone takes the page out of Starting *)
startDoneLeavingStarting(s, req) ==
    IF req.result = "ok"
    THEN [teleopSetSessionId(s, req.session_id) EXCEPT
            !.running = ~req.dry_run,
            !.teleopStarting = FALSE, !.safetyModal = FALSE, !.loading = FALSE]
    ELSE [s EXCEPT !.error = "request failed", !.teleopStarting = FALSE, !.loading = FALSE]

(* TeleopClientPage.tsx:282-296 *)
startDone(s, req) ==
    IF req.result = "ok"
    THEN LET s1 == [teleopSetSessionId(s, req.session_id) EXCEPT !.running = ~req.dry_run]
         IN IF req.dry_run
            THEN [s1 EXCEPT !.teleopStarting = FALSE, !.safetyModal = FALSE, !.loading = FALSE]
            ELSE [s1 EXCEPT !.loading = FALSE]
    ELSE [s EXCEPT !.error = "request failed", !.teleopStarting = FALSE, !.loading = FALSE]

TeleopStartResponse(i) ==
    /\ TeleopAnswered(i, "start")
    /\ tp' = startDone(tp, tpInflight[i])
    /\ tpInflight' = Without(tpInflight, i)
    /\ TeleopBackendSame

(* What the caller of stop() does once stop() has returned *)
afterStop(s, andThen) ==
    CASE andThen \in {"back", "leave"} -> [s EXCEPT !.mounted = FALSE]
      [] andThen = "next" -> [s EXCEPT !.safetyModal = TRUE]
      [] OTHER -> s

(* TeleopClientPage.tsx:299-305: stop() up to the await of stopTeleop *)
stop(s, andThen) ==
    IF s.leader = NoDevice \/ s.follower = NoDevice
    THEN [s |-> afterStop(s, andThen), reqs |-> <<>>]
    ELSE [s |-> [s EXCEPT !.loading = TRUE, !.error = NoError],
          reqs |-> << TpReq("stop", andThen) >>]

(* TeleopClientPage.tsx:306-317 *)
stopDone(s, req) ==
    LET s1 == IF req.result = "ok" THEN [s EXCEPT !.running = FALSE]
              ELSE [s EXCEPT !.error = "request failed"]
    IN afterStop([s1 EXCEPT !.loading = FALSE], req.andThen)

TeleopStopResponse(i) ==
    /\ TeleopAnswered(i, "stop")
    /\ tp' = stopDone(tp, tpInflight[i])
    /\ tpInflight' = Without(tpInflight, i)
    /\ TeleopBackendSame

(* --- TeleopPage: the operator's clicks --- *)

TeleopOperatorCan == tp.mounted /\ Len(tpInflight) < MaxInflight

TeleopClick(b) ==
    /\ tp' = b.s
    /\ tpInflight' = tpInflight \o b.reqs
    /\ TeleopBackendSame

(* A start button that is offered whatever the presence of the devices *)
startButtonEnabledWhateverPresence(s) == ~s.loading /\ ~s.teleopStarting

(* TeleopClientPage.tsx:517-520: disabled={loading || teleopStarting || !bothConnected} *)
startButtonEnabled(s) == ~s.loading /\ ~s.teleopStarting /\ bothConnected(s)

(* TeleopClientPage.tsx:515-521: Start in the safety dialog *)
TeleopClickStart ==
    /\ TeleopOperatorCan
    /\ tp.safetyModal
    /\ startButtonEnabled(tp)
    /\ TeleopClick(start(tp, now))

(* TeleopClientPage.tsx:413-416 *)
TeleopClickStop ==
    /\ TeleopOperatorCan
    /\ tp.running /\ ~tp.loading /\ ~tp.teleopStarting
    /\ TeleopClick(stop(tp, "none"))

(* TeleopClientPage.tsx:418-437 *)
openSafetyModal(s) ==
    IF ~bothConnected(s)
    THEN [s EXCEPT
            !.disconnectModalOpen = TRUE,
            !.disconnectAlertRoles =
                mergeDisconnectRoles(s.disconnectAlertRoles,
                    (IF s.leader.status = "online" THEN <<>> ELSE <<"leader">>)
                    \o (IF s.follower.status = "online" THEN <<>> ELSE <<"follower">>))]
    ELSE [s EXCEPT !.safetyModal = TRUE]

TeleopClickOpenSafety ==
    /\ TeleopOperatorCan
    /\ ~tp.running
    /\ startButtonEnabled(tp)
    /\ TeleopClick([s |-> openSafetyModal(tp), reqs |-> <<>>])

(* TeleopClientPage.tsx:320-326 *)
handleBack(s) ==
    IF s.running THEN stop(s, "back")
    ELSE [s |-> [s EXCEPT !.mounted = FALSE], reqs |-> <<>>]

(* TeleopClientPage.tsx:360 *)
TeleopClickBack ==
    /\ TeleopOperatorCan
    /\ TeleopClick(handleBack(tp))

closeDisconnectModal(s) ==
    [s EXCEPT !.disconnectModalOpen = FALSE, !.disconnectAlertRoles = <<>>]

(* TeleopClientPage.tsx:579-594 *)
TeleopClickLeave ==
    /\ TeleopOperatorCan
    /\ tp.disconnectModalOpen /\ ~tp.loading
    /\ TeleopClick(IF tp.running THEN stop(closeDisconnectModal(tp), "leave")
                   ELSE [s |-> afterStop(closeDisconnectModal(tp), "leave"), reqs |-> <<>>])

(* TeleopClientPage.tsx:595-608 *)
TeleopClickNext ==
    /\ TeleopOperatorCan
    /\ tp.disconnectModalOpen /\ ~tp.loading /\ bothConnected(tp)
    /\ TeleopClick(IF tp.running THEN stop(closeDisconnectModal(tp), "next")
                   ELSE [s |-> afterStop(closeDisconnectModal(tp), "next"), reqs |-> <<>>])

NextTeleop ==
    \/ \E role \in {"leader", "follower"} : PresenceChange(role)
    \/ \E i \in Requests : TeleopServeLoad(i)
    \/ \E i \in Requests : TeleopRequestFails(i)
    \/ \E i \in Requests : TeleopServeStart(i)
    \/ \E i \in Requests : TeleopServeStop(i)
    \/ TeleopProcConfirm
    \/ TeleopProcFault
    \/ TeleopProcWarn
    \/ Tick
    \/ TeleopFleetMessage
    \/ \E i \in Requests : TeleopLoadResponse(i)
    \/ TeleopSessionMessage
    \/ \E i \in Requests : TeleopStartResponse(i)
    \/ \E i \in Requests : TeleopStopResponse(i)
    \/ TeleopClickStart
    \/ TeleopClickStop
    \/ TeleopClickOpenSafety
    \/ TeleopClickBack
    \/ TeleopClickLeave
    \/ TeleopClickNext

SpecTeleop == InitTeleop /\ [][NextTeleop]_vars

TeleopStartIssued ==
    LET starts(q) == {i \in 1..Len(q) : q[i].handler = "start" /\ q[i].result = "none"}
    IN Cardinality(starts(tpInflight')) > Cardinality(starts(tpInflight))

(* C10: a teleop start request leaves the page only when the leader and the
   follower are both online in the robots snapshot the page holds; while
   either is offline or missing no step sends a start request or begins a
   start (teleopStarting stays false). *)
C10_StartOnlyWhenBothOnline ==
    [][ /\ TeleopStartIssued
           => /\ findDevice(tp.robots, LeaderId).status = "online"
              /\ findDevice(tp.robots, FollowerId).status = "online"
        /\ ~( /\ findDevice(tp.robots, LeaderId).status = "online"
              /\ findDevice(tp.robots, FollowerId).status = "online" )
           => /\ ~TeleopStartIssued
              /\ ~(~tp.teleopStarting /\ tp'.teleopStarting) ]_vars

C10_Witness ==
    /\ tp.teleopStarting
    /\ tp.loading
    /\ bothConnected(tp)
    /\ \E i \in 1..Len(tpInflight) :
         tpInflight[i].handler = "start" /\ tpInflight[i].result = "none"

(* A device that was online is reported offline in this step *)
WentOffline(role) == fleet[role] = "online" /\ fleet'[role] = "offline"

(* A start has been requested and its 2.5 s have not yet passed *)
InGraceWindow == tp.suppressDisconnectModalUntil > 0 /\ now < tp.suppressDisconnectModalUntil

(* C11: a device going offline within 2.5 s of a start request sets neither
   the disconnect dialog nor disconnectAlertRoles; one going offline once
   the 2.5 s have passed opens the dialog and records the role. *)
C11_GraceWindowSuppressesDisconnect ==
    [][ \A role \in {"leader", "follower"} :
          (WentOffline(role) /\ tp.suppressDisconnectModalUntil > 0)
          => IF InGraceWindow
             THEN /\ tp'.disconnectModalOpen = tp.disconnectModalOpen
                  /\ tp'.disconnectAlertRoles = tp.disconnectAlertRoles
             ELSE /\ tp'.disconnectModalOpen
                  /\ role \in Range(tp'.disconnectAlertRoles) ]_vars

NoRepeats(s) == Cardinality(Range(s)) = Len(s)

(* The operator closes the disconnect dialog with Leave or Next *)
DisconnectDialogClosed == tp.disconnectModalOpen /\ ~tp'.disconnectModalOpen

(* C12: disconnectAlertRoles never holds a role twice; every step keeps the
   roles it held and may add some, except the operator's Leave or Next in the
   disconnect dialog, which empties it. *)
C12_DisconnectRolesAccumulate ==
    [][ /\ NoRepeats(tp'.disconnectAlertRoles)
        /\ \/ Range(tp.disconnectAlertRoles) \subseteq Range(tp'.disconnectAlertRoles)
           \/ DisconnectDialogClosed /\ tp'.disconnectAlertRoles = <<>> ]_vars

(* Both roles are recorded although only one device is offline now, and the
   session's logs hold a fault line *)
C12_Witness ==
    /\ Range(tp.disconnectAlertRoles) = {"leader", "follower"}
    /\ inferDisconnectFromLogs(tp.logs) # ""
    /\ fleet.leader # fleet.follower

(* A disconnect is detected in this step: a role is added to
   disconnectAlertRoles or the disconnect dialog opens *)
DisconnectDetected ==
    \/ ~(Range(tp'.disconnectAlertRoles) \subseteq Range(tp.disconnectAlertRoles))
    \/ ~tp.disconnectModalOpen /\ tp'.disconnectModalOpen

(* The step delivers the snapshot of the tracked teleop session: the page
   takes its logs and running, and nothing else moves *)
SnapshotTaken ==
    /\ tp.sessionId # NoSession
    /\ teleop.sid = tp.sessionId
    /\ tp'.logs = teleop.logs
    /\ tp'.running = teleopRunning(teleop)
    /\ tp'.mounted
    /\ tpInflight' = tpInflight
    /\ <<fleet', teleop', now'>> = <<fleet, teleop, now>>

TeleopStopIssued ==
    LET stops(q) == {i \in 1..Len(q) : q[i].handler = "stop"}
    IN Cardinality(stops(tpInflight')) > Cardinality(stops(tpInflight))

(* C13: a step that detects a disconnect keeps sessionId, sends no stop request
   and leaves the process alone; running, logs and teleopStarting keep their
   values, or take those of the session snapshot that carried the fault
   line: teleopStarting then falls only if that snapshot confirms the start
   or reports the exit. *)
C13_DisconnectIsOverlayOnly ==
    [][ DisconnectDetected
        => /\ tp'.sessionId = tp.sessionId
           /\ tp'.mounted = tp.mounted
           /\ ~TeleopStopIssued
           /\ teleop' = teleop
           /\ \/ /\ tp'.running = tp.running
                 /\ tp'.logs = tp.logs
                 /\ tp'.teleopStarting = tp.teleopStarting
              \/ /\ SnapshotTaken
                 /\ \/ tp'.teleopStarting = tp.teleopStarting
                    \/ /\ ~tp'.teleopStarting
                       /\ \/ isTeleopConfirmedStartedFromLogs(teleop.logs)
                          \/ teleop.rc # NoCode /\ ~teleopRunning(teleop) ]_vars

(* The disconnect dialog is open with a role inferred from a fault line of
   the logs while the page is Running and the process is alive *)
C13_Witness ==
    /\ tp.disconnectModalOpen
    /\ "follower" \in Range(tp.disconnectAlertRoles)
    /\ inferDisconnectFromLogs(tp.logs) = "follower"
    /\ tp.running
    /\ teleopRunning(teleop)
    /\ bothConnected(tp)

(* The answered start request i is consumed in this step *)
StartAnswerConsumed(i) ==
    /\ i \in 1..Len(tpInflight)
    /\ tpInflight[i].handler = "start"
    /\ tpInflight[i].result # "none"
    /\ tpInflight' = Without(tpInflight, i)

(* The session's logs hold the loop timing line the process writes once it
   has started *)
StartConfirmedInLogs == \E k \in 1..Len(teleop.logs) : teleop.logs[k] = TimeLine

ExitReported == teleop.rc # NoCode /\ ~teleopRunning(teleop)

(* C14: while Starting, a session snapshot whose logs confirm the start, and
   a start response that is a dry run, each leave Starting with the safety
   dialog closed; an accepted start that is no dry run leaves teleopStarting
   as it is; and teleopStarting falls in no other step than those, a failed
   start and a snapshot that reports the exit. *)
C14_LeavesStartingWhenConfirmed ==
    [][ /\ (SnapshotTaken /\ tp.teleopStarting /\ StartConfirmedInLogs)
           => (~tp'.teleopStarting /\ ~tp'.safetyModal)
        /\ \A i \in 1..Len(tpInflight) :
             StartAnswerConsumed(i)
             => IF tpInflight[i].result = "ok" /\ tpInflight[i].dry_run
                THEN ~tp'.teleopStarting /\ ~tp'.safetyModal /\ ~tp'.running
                ELSE IF tpInflight[i].result = "ok"
                THEN /\ tp'.teleopStarting = tp.teleopStarting
                     /\ tp'.safetyModal = tp.safetyModal
                     /\ tp'.running
                     /\ tp'.sessionId = tpInflight[i].session_id
                ELSE ~tp'.teleopStarting
        /\ (tp.teleopStarting /\ ~tp'.teleopStarting)
           => \/ SnapshotTaken /\ (StartConfirmedInLogs \/ ExitReported)
              \/ \E i \in 1..Len(tpInflight) :
                   /\ StartAnswerConsumed(i)
                   /\ tpInflight[i].result = "error" \/ tpInflight[i].dry_run ]_vars

(* Running after a confirmed start: the snapshot with the timing line has
   closed the safety dialog of a session that was Starting *)
C14_Witness ==
    /\ ~tp.teleopStarting
    /\ ~tp.safetyModal
    /\ tp.running
    /\ tp.sessionId # NoSession
    /\ tp.logs = <<TimeLine>>
    /\ teleop.phase = "running"

(* C15: when a snapshot of the tracked session reports, while the page is
   Starting, that the process has stopped with a return code, the page
   leaves Starting, shows the exit code in its error, is not Running, stays
   open, and as soon as no request is pending its Start button depends on
   the presence of the two devices alone. *)
C15_ExitDuringStartupIsReported ==
    [][ (tp.teleopStarting /\ ExitReported /\ teleop' = teleop /\ TeleopSessionMessage)
        => /\ ~tp'.teleopStarting
           /\ ~tp'.running
           /\ tp'.error = (IF teleop.rc = 0 THEN "Teleop exited during startup (code=0)."
                           ELSE "Teleop exited during startup (code=1).")
           /\ tp'.mounted
           /\ tp'.sessionId = tp.sessionId
           /\ tpInflight' = <<>> => ~tp'.loading ]_vars

(* After the process has died during startup (no timing line in its logs)
   the operator has pressed Start again *)
C15_Witness ==
    /\ teleop.phase = "exited"
    /\ teleop.rc = 1
    /\ ~StartConfirmedInLogs
    /\ tp.teleopStarting
    /\ tp.logs = <<StartingLine>>
    /\ \E i \in 1..Len(tpInflight) :
         tpInflight[i].handler = "start" /\ tpInflight[i].result = "none"

CancelFlow == {"cancelCalibrationFlow"}

(* A cancel request of cancelCalibrationFlow for the tracked session is
   already on its way or answered and not yet consumed *)
CancelAlreadySent ==
    \E j \in 1..Len(inflight) :
        /\ inflight[j].handler = "cancelCalibrationFlow"
        /\ inflight[j].sid = cal.calibrationSessionId

SessionStateReset(s) ==
    /\ s.calibrationSessionId = NoSession
    /\ s.calibrationLogs = <<>>
    /\ ~s.calibrationRunning
    /\ s.calibrationRanges = <<>>
    /\ ~s.calibrationStarted
    /\ s.calibrationReturnCode = NoCode
    /\ s.calibrationOverridePrompt = NoPrompt
    /\ ~s.calibrationSaving
    /\ ~s.calibrationWaitingForOutput

(* C16: when cancelCalibrationFlow has its answer, whatever it is, no session
   is tracked and the state derived from the session is reset; a Cancel
   pressed while a cancel for the tracked session is already on its way
   sends no second one; and a cancel refused because the session is no
   longer registered leaves the error shown to the operator as it was. *)
C16_CancelIsIdempotent ==
    [][ /\ \A res \in {"ok", "error"} :
             ConsumedFrom(CancelFlow, "cancelCalibration", res) => SessionStateReset(cal')
        /\ CancelAlreadySent => ~IssuedBy("cancelCalibrationFlow", "cancelCalibration")
        /\ \A i \in 1..Len(inflight) :
             ( /\ Consumed(i)
               /\ inflight[i].handler = "cancelCalibrationFlow"
               /\ inflight[i].result = "error"
               /\ inflight[i].sid \notin DOMAIN sessions )
             => cal'.error = cal.error ]_vars

(* C17: while the same session stays tracked, every joint name present in
   calibrationRanges is still present after the step; a snapshot changes
   only the values of its row. *)
C17_RangeNamesOnlyGrow ==
    [][ ( /\ cal.calibrationSessionId # NoSession
          /\ cal'.calibrationSessionId = cal.calibrationSessionId )
        => Range(rowNames(cal.calibrationRanges)) \subseteq Range(rowNames(cal'.calibrationRanges)) ]_vars

(* Rows for every joint are held, one of them already updated by the sweep
   and another still as first reported *)
C17_Witness ==
    /\ cal.calibrationSessionId # NoSession
    /\ cal.calibrationRunning
    /\ rowNames(cal.calibrationRanges) = JointOrder
    /\ \E i, j \in 1..Len(cal.calibrationRanges) :
         /\ cal.calibrationRanges[i].max - cal.calibrationRanges[i].min > 0
         /\ cal.calibrationRanges[j].max - cal.calibrationRanges[j].min = 0

-----------------------------------------------------------------------------
(* The calibration page on a session whose snapshot may hold any rows and
   any lines: the inputs of reduceRanges and extractUnmovedJoints *)

(* part_001:196-215: the page once handleCalibrate has its answer and tracks
   session 1 *)
calTracking ==
    [initialCal EXCEPT !.robots = <<storedRobot(<<>>)>>,
                       !.autoStarted = TRUE,
                       !.calibrationTarget = storedRobot(<<>>),
                       !.calibrationSessionId = 1,
                       !.calibrationRunning = TRUE,
                       !.calibrationLogs = <<ProcessStartedLine>>,
                       !.calibrationWaitingForOutput = TRUE,
                       !.calibrationJoints = seedJoints,
                       !.sessionSocket = "open",
                       !.socketSid = 1,
                       !.targetRef = TRUE]

RECURSIVE SeqsUpTo(_, _)
SeqsUpTo(S, n) ==
    IF n = 0 THEN {<<>>}
    ELSE LET shorter == SeqsUpTo(S, n - 1)
         IN shorter \cup {Append(q, x) : q \in shorter, x \in S}

(* Rows of two joints, at rest or swept, in any order and with repeats *)
StreamRows ==
    SeqsUpTo({Row(n, t[1], t[2], t[3]) : n \in {"base", "elbow"},
                                         t \in {<<0, 0, 0>>, <<-90, 10, 90>>}}, MaxRows)

TaggedMarkerLine == <<"[", "ERROR", "]">> \o MarkerLine
DoubleQuotedLine == <<"[", "\"", "elbow", "\"", ",", " ", ",", "wrist", " ", "]">>
EmptyListLine == <<"[", "]">>

StreamLists ==
    {ListLine(<<"base">>), ListLine(<<"base", "wrist">>), DoubleQuotedLine, EmptyListLine}

(* Lines before the marker, the marker, lines between it and the list, the list *)
StreamLogs ==
    {pre \o marker \o [i \in 1..gap |-> NeutralLine] \o list :
        pre \in {<<>>, <<ProcessStartedLine>>},
        marker \in {<<>>, <<MarkerLine>>, <<TaggedMarkerLine>>},
        gap \in 0..MaxGap,
        list \in {<<>>} \cup {<<l>> : l \in StreamLists}}

StreamSnapshots ==
    {[logs |-> l, ranges |-> <<>>] : l \in StreamLogs}
        \cup {[logs |-> <<ProcessStartedLine>>, ranges |-> r] : r \in StreamRows}

InitCalStream ==
    /\ cal = calTracking
    /\ mounted = TRUE
    /\ inflight = <<>>
    /\ \E snap \in StreamSnapshots : \E code \in {NoCode, 1} :
         sessions = << [ phase |-> IF code = NoCode THEN "sweep" ELSE "exited",
                         rc |-> code, logs |-> snap.logs, ranges |-> snap.ranges ] >>
    /\ nextSid = 2
    /\ store = <<>>
    /\ InitTeleopIdle
    /\ HomeClosed

NextCalStream == SessionMessage

SpecCalStream == InitCalStream /\ [][NextCalStream]_vars

(* The rows of the snapshot that carry the name *)
RowsNamed(rows, n) == {i \in 1..Len(rows) : rows[i].name = n}

(* C18: the map built from a snapshot's rows holds each name once and, under
   each name, the last row of that name in the snapshot, whatever rows of
   other joints stand in between. *)
C18_RangesHoldLastRowPerName ==
    [][ SessionMessage =>
          LET rows == sessions[cal.calibrationSessionId].ranges
              map == cal'.calibrationRanges
          IN /\ \A i, j \in 1..Len(map) : map[i].name = map[j].name => i = j
             /\ Range(rowNames(map)) = Range(rowNames(rows))
             /\ \A i \in 1..Len(map) :
                  map[i] = rows[CHOOSE k \in RowsNamed(rows, map[i].name) :
                                  \A m \in RowsNamed(rows, map[i].name) : m <= k] ]_vars

(* A snapshot that repeats a joint with another joint's row in between has
   been taken: the later row of the repeated joint is held *)
C18_Witness ==
    LET rows == sessions[1].ranges
    IN /\ cal.calibrationSessionId = 1
       /\ Len(rows) = 3
       /\ rows[1].name = rows[3].name
       /\ rows[2].name # rows[1].name
       /\ rows[1] # rows[3]
       /\ Len(cal.calibrationRanges) = 2
       /\ cal.calibrationRanges[1] = rows[3]

Least(S) == CHOOSE x \in S : \A y \in S : x <= y

(* The lines that carry the marker of part_001:393 *)
MarkerLines(logs) == {i \in 1..Len(logs) : includes(logs[i], SameMinMaxMarker)}

(* The places of a line where a bracketed group with something in it opens *)
GroupOpens(line) ==
    {p \in 1..(Len(line) - 2) :
        /\ line[p] = "["
        /\ line[p + 1] # "]"
        /\ \E q \in (p + 2)..Len(line) : line[q] = "]"}

(* The words of the first bracketed group of a line *)
NamesListed(line) ==
    LET p == Least(GroupOpens(line))
        q == Least({k \in (p + 2)..Len(line) : line[k] = "]"})
        isWord(t) == t \notin {"'", "\"", ",", " "}
    IN SelectSeq(SubSeq(line, p + 1, q - 1), isWord)

(* The names the page should read when the list is looked for in the lines
   from..to: those of the first line there that holds a bracketed group *)
NamesInWindow(logs, from, to) ==
    LET lists == {k \in from..to : k <= Len(logs) /\ GroupOpens(logs[k]) # {}}
    IN IF lists = {} THEN <<>> ELSE NamesListed(logs[Least(lists)])

(* C19, as the code has it: extractUnmovedJoints reads the first bracketed
   group in the window of six lines that begins with the first marker line
   (that line and the five after it), gives its entries without quotes,
   trimmed and without the empty ones, and gives nothing when there is no
   marker or no such group in the window. *)
C19_UnmovedJointsReadFromSixLineWindow ==
    LET logs == cal.calibrationLogs
    IN extractUnmovedJoints(logs) =
         IF MarkerLines(logs) = {} THEN <<>>
         ELSE NamesInWindow(logs, Least(MarkerLines(logs)), Least(MarkerLines(logs)) + 5)

(* The process has failed; the list stands on the fifth line after the
   marker, with double quotes, an empty entry and padded names, and the page
   shows its two names *)
C19_Witness ==
    LET logs == cal.calibrationLogs
    IN /\ MarkerLines(logs) # {}
       /\ Least(MarkerLines(logs)) + 5 = Len(logs)
       /\ logs[Len(logs)] = DoubleQuotedLine
       /\ cal.calibrationReturnCode = 1
       /\ cal.calibrationErrorJoints = <<"elbow", "wrist">>

(* C19, as stated: the list is the one that follows the marker line within
   the next six lines. *)
C19_ListWithinNextSixLinesIsRead ==
    LET logs == cal.calibrationLogs
    IN extractUnmovedJoints(logs) =
         IF MarkerLines(logs) = {} THEN <<>>
         ELSE NamesInWindow(logs, Least(MarkerLines(logs)) + 1, Least(MarkerLines(logs)) + 6)

-----------------------------------------------------------------------------
(* The teleoperation page on a session whose snapshot may hold any lines:
   the inputs of isTeleopConfirmedStartedFromLogs *)

(* TeleopClientPage.tsx:270-296: the page once start() has its answer and
   tracks session 1, both arms online *)
tpTracking ==
    LET lead == [id |-> LeaderId, status |-> "online"]
        follow == [id |-> FollowerId, status |-> "online"]
    IN [initialTp EXCEPT !.robots = <<lead, follow>>,
                         !.leader = lead, !.follower = follow,
                         !.socketLeader = lead, !.socketFollower = follow,
                         !.sessionId = 1,
                         !.running = TRUE,
                         !.teleopStarting = TRUE,
                         !.suppressDisconnectModalUntil = 2500,
                         !.sessionSocket = "open",
                         !.logs = <<StartingLine>>]

BareTimeLine == <<"Time:">>
LeaderConnectedWordLine == <<"Leader", "arm", "connected.x">>
FollowerConnectedWordLine == <<"Follower", "arm", "connected.x">>

TeleopStreamLines ==
    {TimeLine, BareTimeLine, StartingLine, LeaderConnectedLine, FollowerConnectedLine,
     LeaderConnectedWordLine, FollowerConnectedWordLine,
     LeaderFaultLine, FollowerFaultLine, PortFaultLine}

InitTeleopStream ==
    /\ tp = tpTracking
    /\ tpInflight = <<>>
    /\ fleet = [leader |-> "online", follower |-> "online"]
    /\ \E lines \in SeqsUpTo(TeleopStreamLines, MaxLines) :
         teleop = [sid |-> 1, phase |-> "running", rc |-> NoCode, logs |-> lines, starts |-> 1]
    /\ now = 0
    /\ CalibrationClosed
    /\ HomeClosed

NextTeleopStream == TeleopSessionMessage

SpecTeleopStream == InitTeleopStream /\ [][NextTeleopStream]_vars

(* A line that begins with "time:" in any case, followed by white space *)
TimestampLine(line) ==
    Len(trim(line)) >= 2 /\ toLowerCase(trim(line))[1] = "time:"

(* A line that names the role and, further on, says "connected." *)
ConnectedMarker(line, role) ==
    \E a \in 1..Len(line) : \E b \in (a + 1)..Len(line) :
        /\ toLowerCase(line)[a] = role
        /\ line[b] \in {"connected.", "connected.x"}

(* C20: the start counts as confirmed exactly when some line is a timestamp
   line or the logs hold both a leader-connected and a follower-connected
   marker. *)
C20_ConfirmedIffTimestampOrBothMarkers ==
    isTeleopConfirmedStartedFromLogs(tp.logs)
        <=> \/ \E i \in 1..Len(tp.logs) : TimestampLine(tp.logs[i])
            \/ /\ \E i \in 1..Len(tp.logs) : ConnectedMarker(tp.logs[i], "leader")
               /\ \E i \in 1..Len(tp.logs) : ConnectedMarker(tp.logs[i], "follower")

-----------------------------------------------------------------------------

(* C21: no disconnect is inferred without an error marker; with one, the
   leader is named only when the logs hint at the leader and not at the
   follower, the follower only when they hint at the follower and not at the
   leader, and logs that hint at both or at neither name no role. *)
C21_AmbiguousDisconnectNamesNoRole ==
    LET logs == tp.logs
        marker == someLineIncludes(logs, errorMarkers)
        hintsLeader == someLineIncludes(logs, leaderHints)
        hintsFollower == someLineIncludes(logs, followerHints)
        role == inferDisconnectFromLogs(logs)
    IN /\ ~marker => role = ""
       /\ marker /\ hintsLeader /\ ~hintsFollower => role = "leader"
       /\ marker /\ hintsFollower /\ ~hintsLeader => role = "follower"
       /\ marker /\ (hintsLeader <=> hintsFollower) => role \notin {"leader", "follower"}

-----------------------------------------------------------------------------
(* The teleoperation page tracking a session whose socket may be lost *)

InitTeleopDrop ==
    /\ tp = tpTracking
    /\ tpInflight = <<>>
    /\ fleet = [leader |-> "online", follower |-> "online"]
    /\ teleop = [sid |-> 1, phase |-> "starting", rc |-> NoCode, logs |-> <<>>, starts |-> 1]
    /\ now = 0
    /\ CalibrationClosed
    /\ HomeClosed

NextTeleopDrop ==
    \/ TeleopSessionSocketCloses
    \/ TeleopSessionMessage
    \/ TeleopProcConfirm
    \/ TeleopProcFault
    \/ TeleopProcWarn
    \/ \E role \in {"leader", "follower"} : PresenceChange(role)
    \/ TeleopClickStop
    \/ \E i \in Requests : TeleopServeStop(i)
    \/ \E i \in Requests : TeleopStopResponse(i)
    \/ TeleopClickBack

(* The backend pushes the snapshot of a session to every open socket, and
   answers the requests it is sent *)
SpecTeleopDrop ==
    /\ InitTeleopDrop
    /\ [][NextTeleopDrop]_vars
    /\ WF_vars(TeleopSessionMessage)
    /\ WF_vars(\E i \in Requests : TeleopServeStop(i))
    /\ WF_vars(\E i \in Requests : TeleopStopResponse(i))

(* C23: when the session socket closes while the session is tracked, the page
   connects again (and is then given a fresh snapshot), unless it is left or
   stops tracking the session. *)
C23_ClosedTeleopSocketIsReopened ==
    (tp.mounted /\ tp.sessionId # NoSession /\ tp.sessionSocket = "closed")
        ~> (tp.sessionSocket = "open" \/ tp.sessionId = NoSession \/ ~tp.mounted)

-----------------------------------------------------------------------------
(* The calibration page tracking a session while its sockets may be lost *)

InitCalDrop ==
    /\ cal = calTracking
    /\ mounted = TRUE
    /\ inflight = <<>>
    /\ sessions = << newSession(FALSE) >>
    /\ nextSid = 2
    /\ store = <<>>
    /\ InitTeleopIdle
    /\ HomeClosed

NextCalDrop ==
    \/ FleetSocketCloses
    \/ FleetSocketReconnects
    \/ SessionSocketCloses
    \/ SessionSocketReconnects
    \/ FleetMessage
    \/ SessionMessage
    \/ \E sid \in SessionIds : ProcEmitPrompt(sid)
    \/ \E sid \in SessionIds : ProcReady(sid)
    \/ \E sid \in SessionIds : ProcCrash(sid)
    \/ \E sid \in SessionIds : ExternalCancel(sid)
    \/ ClickBack

(* A socket that has been connected again can be given its first message *)
Subscribed(socket) ==
    mounted /\ cal[socket] = "reopened" /\ Len(inflight) <= MaxInflight

(* A timer that is armed fires; the backend gives each subscriber the current
   snapshot when it subscribes: a socket that is connected again and again is
   given a message at some time (strong fairness of the first message, with
   its enabling condition written out) *)
SpecCalDrop ==
    /\ InitCalDrop
    /\ [][NextCalDrop]_vars
    /\ WF_vars(FleetSocketReconnects)
    /\ WF_vars(SessionSocketReconnects)
    /\ (<>[]~Subscribed("fleetSocket") \/ []<><<FleetMessage>>_vars)
    /\ (<>[]~Subscribed("sessionSocket") \/ []<><<SessionMessage>>_vars)

(* C22: while the page is mounted a closed fleet socket is connected again
   and receives the robot list; a closed session socket is connected again
   and receives the session's snapshot while the session id stays the same;
   a socket is connected again only from its reconnect timer, with the page
   mounted and the session id unchanged, and no socket or timer is left once
   the page is unmounted or the session is no longer tracked. *)
C22_ClosedSocketsAreReopened ==
    /\ (mounted /\ cal.fleetSocket = "waiting") ~> (cal.fleetSocket = "open" \/ ~mounted)
    /\ (mounted /\ cal.sessionSocket = "waiting")
         ~> (cal.sessionSocket = "open" \/ ~mounted \/ cal.calibrationSessionId = NoSession)
    /\ [][ \A socket \in {"fleetSocket", "sessionSocket"} :
             (cal'[socket] = "reopened" /\ cal[socket] # "reopened")
                => /\ mounted /\ mounted'
                   /\ cal[socket] = "waiting"
                   /\ cal'.calibrationSessionId = cal.calibrationSessionId ]_vars
    /\ [](~mounted => cal.fleetSocket = "none" /\ cal.sessionSocket = "none")
    /\ [](cal.calibrationSessionId = NoSession => cal.sessionSocket = "none")

(* Both sockets have been lost and connected again, and the session socket
   has received the snapshot of the session that is still tracked *)
C22_Witness ==
    /\ mounted
    /\ cal.calibrationSessionId = 1
    /\ cal.fleetSocket = "reopened"
    /\ cal.sessionSocket = "open"
    /\ \E i \in 1..Len(cal.calibrationLogs) : cal.calibrationLogs[i] = NeutralLine

-----------------------------------------------------------------------------

(* The tracked session is a dry run *)
DryRunTracked ==
    /\ cal.calibrationSessionId \in DOMAIN sessions
    /\ sessions[cal.calibrationSessionId].phase = "dry"

(* The continuation of the operator's save, cancel (of the calibration or of
   an override prompt) or restart runs *)
OperatorEndsSession ==
    \E i \in 1..Len(inflight) :
        /\ Consumed(i)
        /\ \/ /\ inflight[i].handler \in {"saveCalibrationFlow", "cancelCalibrationFlow",
                                         "handleCalibrate"}
              /\ inflight[i].call \in {"saveCalibration", "cancelCalibration"}
           \/ /\ inflight[i].handler = "cancelCalibrationOverride"
              /\ inflight[i].call = "sendCalibrationEnter"

(* C24: the answer of a dry-run start leaves the page ready and not running
   in that very step, before any input is sent to the session; while the
   dry-run session exists and the page is open it stays ready in every step
   but the continuation of the operator's save, cancel or restart. *)
C24_DryRunIsReadyAtOnce ==
    /\ [][ \A i \in 1..Len(inflight) :
             ( /\ mounted
               /\ Consumed(i)
               /\ inflight[i].handler = "handleCalibrate"
               /\ inflight[i].call = "startCalibration"
               /\ inflight[i].result = "ok"
               /\ inflight[i].res.dry_run )
             => cal'.calibrationReady /\ ~cal'.calibrationRunning ]_vars
    /\ [][ ( /\ mounted
             /\ DryRunTracked
             /\ cal.calibrationReady
             /\ cal.calibrationSessionId \in DOMAIN sessions' )
           => cal'.calibrationReady \/ OperatorEndsSession ]_vars

(* The dry-run session is tracked and ready, its start flow has finished, and
   the fleet list has arrived since; no ENTER was ever sent *)
C24_Witness ==
    /\ mounted
    /\ DryRunTracked
    /\ cal.calibrationReady
    /\ ~cal.calibrationRunning
    /\ ~cal.calibrationStarting
    /\ ~cal.calibrationStarted
    /\ inflight = <<>>
    /\ cal.robots # <<>>

-----------------------------------------------------------------------------

StreamErrorText == "Calibration session closed."

(* The stream's error handler runs in this step: the tracked session is gone *)
StreamErrorStep ==
    /\ mounted
    /\ cal.calibrationSessionId # NoSession
    /\ cal.calibrationSessionId \notin DOMAIN sessions
    /\ cal.sessionSocket \in {"open", "reopened"}
    /\ cal'.calibrationSessionId = NoSession
    /\ \A i \in 1..Len(inflight) : ~Consumed(i)

(* What a stream error leaves on the page: no session, and the handler's
   text or the text the robot-not-found effect writes over it *)
StreamErrorShown ==
    /\ mounted
    /\ cal.calibrationSessionId = NoSession
    /\ cal.error \in {StreamErrorText, "Robot not found."}

(* C25: a stream error is shown as the error message and clears the session
   id, running, ranges, logs, started, ready and the target; no socket is
   left for that session; and once the stream's error has ended the
   tracking, no step sends a saveCalibration request. *)
C25_StreamErrorEndsTracking ==
    /\ [][ StreamErrorStep
           => ( /\ cal'.error = StreamErrorText
                /\ ~cal'.calibrationRunning
                /\ cal'.calibrationRanges = <<>>
                /\ cal'.calibrationLogs = <<>>
                /\ ~cal'.calibrationStarted
                /\ ~cal'.calibrationReady
                /\ cal'.calibrationTarget = NoRobot
                /\ cal'.sessionSocket = "none" ) ]_vars
    /\ [][ StreamErrorShown => ~Issued("saveCalibration") ]_vars

-----------------------------------------------------------------------------

(* What the backend reports of a registered session *)
Reported(reg, sid) == sessionSnapshot(sid, reg[sid], store)

(* C27 as stated: a registered session reported as not running has received
   an exit callback, which has set its return code. *)
C27_NotRunningOnlyAfterExit ==
    \A sid \in DOMAIN sessions :
        ~Reported(sessions, sid).running => Reported(sessions, sid).return_code # NoCode

(* C27: a session reported as not running is a dry run, which never had a
   process, or has a return code set by an exit callback; a session with a
   process stops running only in a step that sets its return code; and once
   a session is not running no step, a further exit callback included,
   changes its running flag or its return code. *)
C27_ExitIsRecordedOnce ==
    /\ [](\A sid \in DOMAIN sessions :
            ~Reported(sessions, sid).running
            => Reported(sessions, sid).dry_run \/ Reported(sessions, sid).return_code # NoCode)
    /\ [][ \A sid \in DOMAIN sessions \cap DOMAIN sessions' :
             /\ ( Reported(sessions, sid).running /\ ~Reported(sessions', sid).running
                  => Reported(sessions', sid).return_code # NoCode )
             /\ ( ~Reported(sessions, sid).running
                  => /\ ~Reported(sessions', sid).running
                     /\ Reported(sessions', sid).return_code = Reported(sessions, sid).return_code )
         ]_vars

(* The process left with code 1 and the page has been told so *)
C27_Witness ==
    /\ mounted
    /\ cal.calibrationSessionId \in DOMAIN sessions
    /\ sessions[cal.calibrationSessionId].phase = "exited"
    /\ sessions[cal.calibrationSessionId].rc = 1
    /\ ~cal.calibrationRunning
    /\ cal.calibrationReturnCode = 1

-----------------------------------------------------------------------------
(* Home, the fleet view (page.tsx:1181-1590), and the PresencePoller and
   fleet broadcast of the backend, modelled from the specification *)

MaxPlugs == 3
MaxRefreshes == 2

NoAnswer == [done |-> FALSE, robots |-> <<>>, ports |-> {}]

RobotsAnswer(list) == [done |-> TRUE, robots |-> list, ports |-> {}]

PortsAnswer(keys) == [done |-> TRUE, robots |-> <<>>, ports |-> keys]

(* Promise.all([fetchRobots(), fetchPorts()]) of one refreshAll call *)
RefreshCall == [robots |-> NoAnswer, ports |-> NoAnswer]

HomeRequests == 1..MaxRefreshes

(* First render of Home: the mount effect has called refreshAll
   (page.tsx:1208-1210) and the fleet socket is subscribed (1212-1247); the
   subscription delivers the current snapshot. *)
InitFleet ==
    /\ home = [initialHome EXCEPT !.loading = TRUE]
    /\ homeInflight = << RefreshCall >>
    /\ \E attached \in SUBSET Devices :
         /\ presence = initialPresence(attached)
         /\ homeSocket = << fleetSnapshot(attached) >>
    /\ homeOps = initialHomeOps
    /\ roster = NoRoster
    /\ camera = initialCamera
    /\ CalibrationClosed
    /\ InitTeleopIdle

HomePageSame == UNCHANGED <<home, homeInflight, homeOps, roster, camera, calVars, tpVars>>

HomeBackendSame == UNCHANGED <<presence, homeOps, roster, camera, calVars, tpVars>>

(* --- the devices and the poller --- *)

(* A device is plugged in or pulled *)
DeviceChange(d) ==
    /\ presence.plugs < MaxPlugs
    /\ presence' = [presence EXCEPT
                      !.attached = IF d \in @ THEN @ \ {d} ELSE @ \cup {d},
                      !.plugs = @ + 1]
    /\ UNCHANGED homeSocket
    /\ HomePageSame

(* A poll tick that broadcasts whatever it finds *)
pollTickAlwaysPublishing(p) ==
    [p EXCEPT !.snapshot = p.attached,
              !.broadcast = fleetRecords(p.attached),
              !.publishes = @ + 1]

(* PresencePoller tick: the snapshot is replaced by what is attached; the
   fleet is published if the statuses it gives differ from the last
   broadcast *)
pollTick(p) ==
    LET records == fleetRecords(p.attached)
    IN IF records # p.broadcast
       THEN [p EXCEPT !.snapshot = p.attached, !.broadcast = records, !.publishes = @ + 1]
       ELSE [p EXCEPT !.snapshot = p.attached]

PollTick ==
    /\ presence' = pollTick(presence)
    /\ homeSocket' = IF presence'.publishes > presence.publishes
                     THEN Append(homeSocket, fleetSnapshot(presence'.snapshot))
                     ELSE homeSocket
    /\ HomePageSame

(* The enumeration fails: the previous snapshot stays *)
PollFails ==
    /\ UNCHANGED <<presence, homeSocket>>
    /\ HomePageSame

(* GET /robots *)
ServeHomeRobots(i) ==
    /\ i \in 1..Len(homeInflight)
    /\ ~homeInflight[i].robots.done
    /\ homeInflight' = [homeInflight EXCEPT
                          ![i].robots = RobotsAnswer(fleetRecords(presence.snapshot))]
    /\ UNCHANGED <<home, homeSocket>>
    /\ HomeBackendSame

(* GET /ports *)
ServeHomePorts(i) ==
    /\ i \in 1..Len(homeInflight)
    /\ ~homeInflight[i].ports.done
    /\ homeInflight' = [homeInflight EXCEPT ![i].ports = PortsAnswer(presence.snapshot)]
    /\ UNCHANGED <<home, homeSocket>>
    /\ HomeBackendSame

(* --- Home --- *)

(* page.tsx:1194-1196 *)
HomeClickRefresh ==
    /\ Len(homeInflight) < MaxRefreshes
    /\ home' = [home EXCEPT !.loading = TRUE, !.error = NoError]
    /\ homeInflight' = Append(homeInflight, RefreshCall)
    /\ UNCHANGED homeSocket
    /\ HomeBackendSame

(* page.tsx:1198-1200, 1204-1205 *)
refreshAllDone(h, call) ==
    [h EXCEPT !.robots = call.robots.robots, !.ports = call.ports.ports, !.loading = FALSE]

RefreshAllResponse(i) ==
    /\ i \in 1..Len(homeInflight)
    /\ homeInflight[i].robots.done
    /\ homeInflight[i].ports.done
    /\ home' = refreshAllDone(home, homeInflight[i])
    /\ homeInflight' = Without(homeInflight, i)
    /\ UNCHANGED homeSocket
    /\ HomeBackendSame

(* page.tsx:1201-1205: one of the two requests is rejected *)
RefreshAllFails(i) ==
    /\ i \in 1..Len(homeInflight)
    /\ ~(homeInflight[i].robots.done /\ homeInflight[i].ports.done)
    /\ home' = [home EXCEPT !.error = "request failed", !.loading = FALSE]
    /\ homeInflight' = Without(homeInflight, i)
    /\ UNCHANGED homeSocket
    /\ HomeBackendSame

(* page.tsx:1221-1232 *)
fleetStatusHandler(h, payload) ==
    [h EXCEPT !.robots = payload.robots, !.ports = payload.ports]

HomeFleetMessage ==
    /\ homeSocket # <<>>
    /\ home' = fleetStatusHandler(home, Head(homeSocket))
    /\ homeSocket' = Tail(homeSocket)
    /\ UNCHANGED homeInflight
    /\ HomeBackendSame

NextFleet ==
    \/ \E d \in Devices : DeviceChange(d)
    \/ PollTick
    \/ PollFails
    \/ \E i \in HomeRequests : ServeHomeRobots(i)
    \/ \E i \in HomeRequests : ServeHomePorts(i)
    \/ HomeClickRefresh
    \/ \E i \in HomeRequests : RefreshAllResponse(i)
    \/ \E i \in HomeRequests : RefreshAllFails(i)
    \/ HomeFleetMessage

SpecFleet == InitFleet /\ [][NextFleet]_vars

(* C26: every robot the fleet view lists is shown online exactly when its
   stored COM port is a key of the ports map the view holds. *)
C26_OnlineIffPortInHeldPorts ==
    \A i \in 1..Len(home.robots) :
        home.robots[i].status = "online" <=> home.robots[i].com_port \in home.ports

(* C28: a poll tick that finds the devices of the previous snapshot publishes
   nothing; a tick that finds the robot's device gone from the previous
   snapshot drops it from the snapshot and publishes the fleet exactly once,
   with that robot offline. *)
C28_TickPublishesOnChangeOnly ==
    /\ [][ (PollTick /\ presence.attached = presence.snapshot)
           => /\ presence'.publishes = presence.publishes
              /\ homeSocket' = homeSocket ]_vars
    /\ [][ (PollTick /\ RobotPort \in presence.snapshot \ presence.attached)
           => /\ RobotPort \notin presence'.snapshot
              /\ presence'.publishes = presence.publishes + 1
              /\ Len(homeSocket') = Len(homeSocket) + 1
              /\ SubSeq(homeSocket', 1, Len(homeSocket)) = homeSocket
              /\ homeSocket'[Len(homeSocket')].robots[1].status = "offline"
              /\ RobotPort \notin homeSocket'[Len(homeSocket')].ports ]_vars

(* The robot's device was pulled, and the one tick since has published the
   fleet with the robot offline *)
C28_Witness ==
    /\ presence.plugs = 1
    /\ presence.publishes = 1
    /\ RobotPort \notin presence.snapshot
    /\ homeSocket # <<>>
    /\ homeSocket[Len(homeSocket)].robots[1].status = "offline"

-----------------------------------------------------------------------------

(* handleCalibrate is invoked in this step: its first request leaves the page
   and is not the start that follows its own cancel *)
HandleCalibrateInvoked ==
    /\ IssuedBy("handleCalibrate", "cancelCalibration")
         \/ IssuedBy("handleCalibrate", "startCalibration")
    /\ ~ConsumedFrom({"handleCalibrate"}, "cancelCalibration", "ok")
    /\ ~ConsumedFrom({"handleCalibrate"}, "cancelCalibration", "error")

(* The operator presses one of the two Restart buttons *)
OperatorRestarts == ClickRestart \/ ClickRestartFromModal

(* C29: handleCalibrate runs without the operator's click only in the step
   that sets autoStarted, which is the first step that gives the page a
   target; autoStarted is never reset while the page is open, so neither a
   fleet update nor the target's return after a stream error starts or
   restarts a session. *)
C29_AutoStartAtMostOnce ==
    /\ [][ (HandleCalibrateInvoked /\ ~OperatorRestarts)
           => ~cal.autoStarted /\ cal'.autoStarted ]_vars
    /\ [][ (cal.autoStarted /\ mounted') => cal'.autoStarted ]_vars
    /\ [][ (mounted /\ mounted' /\ ~cal.autoStarted /\ cal'.calibrationTarget # NoRobot)
           => cal'.autoStarted /\ HandleCalibrateInvoked ]_vars
    /\ [][ (FleetMessage /\ cal.autoStarted) => ~HandleCalibrateInvoked ]_vars

(* The one session the page started was lost, the stream's error cleared the
   target, a fleet update has given it back, and nothing was started *)
C29_Witness ==
    /\ mounted
    /\ cal.autoStarted
    /\ nextSid = 2
    /\ sessions = <<>>
    /\ cal.calibrationSessionId = NoSession
    /\ cal.calibrationTarget # NoRobot
    /\ cal.error = "Robot not found."
    /\ ~cal.calibrationStarting
    /\ inflight = <<>>

-----------------------------------------------------------------------------

(* The calibration page on a process that prints a line of its own before
   it asks anything *)

(* The tool reports the connection to the arm before it prompts *)
ConnectedLine == <<"armA", "SO101Follower", "connected.">>

ProcEmitConnected(sid) ==
    /\ InPhase(sid, "boot")
    /\ sessions[sid].logs = <<ProcessStartedLine>>
    /\ ProcStep(sid, [sessions[sid] EXCEPT !.logs = Append(@, ConnectedLine)])

InitCalBoot ==
    /\ cal = calTracking
    /\ mounted = TRUE
    /\ inflight = <<>>
    /\ sessions = << newSession(FALSE) >>
    /\ nextSid = 2
    /\ store = <<>>
    /\ InitTeleopIdle
    /\ HomeClosed

NextCalBoot ==
    \/ \E sid \in SessionIds : ProcEmitConnected(sid)
    \/ \E sid \in SessionIds : ProcEmitPrompt(sid)
    \/ \E sid \in SessionIds : ProcReady(sid)
    \/ \E sid \in SessionIds : ProcEmitRows(sid)
    \/ \E sid \in SessionIds : ProcCrash(sid)
    \/ \E i \in Requests : ServeInput(i)
    \/ SessionMessage
    \/ FleetMessage
    \/ ClickIntroNext
    \/ ClickStartCalibration
    \/ ClickContinueOverride
    \/ \E i \in Requests : SendEnterResponse(i)
    \/ \E i \in Requests : ContinueOverrideResponse(i)

SpecCalBoot == InitCalBoot /\ [][NextCalBoot]_vars

(* C30: while an override prompt is pending the sweep does not count as
   started, also when the answer of a begin-sweep ENTER sent before the
   prompt line arrives after it. *)
C30_PendingPromptMeansNotStarted ==
    mounted /\ cal.calibrationOverridePrompt # NoPrompt => ~cal.calibrationStarted

-----------------------------------------------------------------------------

(* A saveCalibration request whose continuation has not run yet *)
SaveInFlight == \E i \in 1..Len(inflight) : inflight[i].call = "saveCalibration"

(* C31: while a saveCalibration request is in flight no step, be it a session
   snapshot, a fleet update or any other, sends a second one. *)
C31_OneSaveInFlight ==
    [][ SaveInFlight => ~Issued("saveCalibration") ]_vars

-----------------------------------------------------------------------------

(* The page stops tracking the session it tracks: the id is cleared or
   replaced, or the page is left *)
StopsTracking ==
    /\ mounted
    /\ cal.calibrationSessionId # NoSession
    /\ ~mounted' \/ cal'.calibrationSessionId # cal.calibrationSessionId

(* A cancelCalibration request for the session has left the page *)
CancelIssuedFor(sid) ==
    \/ \E i \in 1..Len(inflight) :
          inflight[i].call = "cancelCalibration" /\ inflight[i].sid = sid
    \/ \E i \in 1..Len(inflight') :
          inflight'[i].call = "cancelCalibration" /\ inflight'[i].sid = sid

(* C32: the page stops tracking a session only if it has sent a cancel request
   for it, or has saved it, or the stream has reported it gone. *)
C32_TrackedSessionIsCancelledFirst ==
    [][ StopsTracking
        => \/ CancelIssuedFor(cal.calibrationSessionId)
           \/ ConsumedFrom({"saveCalibrationFlow"}, "saveCalibration", "ok")
           \/ StreamErrorStep ]_vars

(* Events the socket of an earlier session still delivers *)
MaxStale == 2

-----------------------------------------------------------------------------
(* The socket of an earlier calibration session: events that reach its
   callbacks after the session socket effect has been cleaned up *)

(* A callback that never looks at `stopped` *)
returnsWhenStoppedNever(socket) == FALSE

(* part_001:254, 290, 296: `if (stopped) return;` at the head of onmessage,
   of its catch block and of onclose *)
returnsWhenStopped(socket) == socket.stopped

(* The event is counted as delivered by the old socket *)
delivered(s, closing) ==
    [s EXCEPT !.oldSocket.received = @ + 1, !.oldSocket.closed = closing]

OldSocketCanDeliver ==
    /\ cal.oldSocket.sid # NoSession
    /\ ~cal.oldSocket.closed
    /\ cal.oldSocket.received < MaxStale

(* part_001:253-294: onmessage of the old socket, with the snapshot of its
   own session or `not_found` once the registry has dropped that session *)
StaleSessionMessage ==
    /\ OldSocketCanDeliver
    /\ LET sid == cal.oldSocket.sid
           u == Batch(delivered(cal, FALSE))
       IN IF returnsWhenStopped(cal.oldSocket) \/ ~mounted
          THEN /\ cal' = delivered(cal, FALSE)
               /\ UNCHANGED <<mounted, inflight>>
          ELSE IF sid \in DOMAIN sessions
          THEN Commit(sessionSnapshotHandler(u, sessionSnapshot(sid, sessions[sid], store)),
                      inflight)
          ELSE Commit(sessionErrorHandler(u), inflight)
    /\ ClientOnly

(* part_001:295-298: onclose of the old socket *)
StaleSessionSocketCloses ==
    /\ OldSocketCanDeliver
    /\ cal' = IF returnsWhenStopped(cal.oldSocket)
              THEN delivered(cal, TRUE)
              ELSE [delivered(cal, TRUE) EXCEPT !.oldSocket.timer = TRUE]
    /\ UNCHANGED <<mounted, inflight>>
    /\ ClientOnly

(* The registry answers the start of the page's second session *)
ServeRestartCalibration(i) ==
    /\ Pending(i, "startCalibration")
    /\ nextSid = MaxSessions + 1
    /\ sessions' = [s \in DOMAIN sessions \cup {nextSid} |->
                      IF s = nextSid THEN newSession(FALSE) ELSE sessions[s]]
    /\ nextSid' = nextSid + 1
    /\ Answer(i, TRUE, sessionSnapshot(nextSid, newSession(FALSE), store))
    /\ UNCHANGED store
    /\ BackendOnly

(* The page tracks session 1, whose process has just started; the registry
   has handed out every id but the last *)
InitCalRestart ==
    /\ cal = calTracking
    /\ mounted = TRUE
    /\ inflight = <<>>
    /\ sessions = << newSession(FALSE) >>
    /\ nextSid = MaxSessions + 1
    /\ store = <<>>
    /\ InitTeleopIdle
    /\ HomeClosed

RestartIds == 1..(MaxSessions + 1)

NextCalRestart ==
    \/ \E sid \in RestartIds : ProcEmitPrompt(sid)
    \/ \E sid \in RestartIds : ProcCrash(sid)
    \/ \E i \in Requests : ServeFetchRobots(i)
    \/ \E i \in Requests : RequestFails(i)
    \/ \E i \in Requests : ServeCancelCalibration(i)
    \/ \E i \in Requests : ServeRestartCalibration(i)
    \/ \E i \in Requests : HandleCalibrateCancelled(i)
    \/ \E i \in Requests : HandleCalibrateStarted(i)
    \/ \E i \in Requests : HandleCalibrateRefreshed(i)
    \/ SessionMessage
    \/ ClickRestart
    \/ ClickBack
    \/ StaleSessionMessage
    \/ StaleSessionSocketCloses

SpecCalRestart == InitCalRestart /\ [][NextCalRestart]_vars

(* The page apart from the event count of the old socket *)
shown(s) == [s EXCEPT !.oldSocket.received = 0, !.oldSocket.closed = FALSE]

(* C33: once the calibration session id has changed or the page has been
   left, the socket of the previous session is stopped and has no reconnect
   timer, the socket in place is the one of the tracked session, and a
   message, an error payload or a close event of the previous socket changes
   no state of the page, issues no request and arms no reconnect. *)
C33_OldSocketIsInert ==
    /\ [](cal.oldSocket.sid # NoSession => cal.oldSocket.stopped /\ ~cal.oldSocket.timer)
    /\ [](mounted => cal.socketSid = cal.calibrationSessionId)
    /\ [][ StaleSessionMessage \/ StaleSessionSocketCloses
           => /\ shown(cal') = shown(cal)
              /\ UNCHANGED <<mounted, inflight>> ]_vars

(* The second session is tracked and shown while the socket of session 1,
   which the registry still holds, has delivered a message *)
C33_Witness ==
    /\ mounted
    /\ cal.calibrationSessionId = MaxSessions + 1
    /\ cal.oldSocket.sid = 1
    /\ cal.oldSocket.received > 0
    /\ 1 \in DOMAIN sessions
    /\ sessions[1].logs # sessions[MaxSessions + 1].logs

-----------------------------------------------------------------------------
(* End calibration: the stop request and its fallback *)

(* The requests for call that stopCalibrationSweep is waiting for *)
SweepStopCalls(q, call) ==
    Cardinality({i \in PendingCalls(q, call) : q[i].handler = "stopCalibrationSweep"})

SweepStopIssues(stops, enters) ==
    /\ SweepStopCalls(inflight', "stopCalibration")
         = SweepStopCalls(inflight, "stopCalibration") + stops
    /\ SweepStopCalls(inflight', "sendCalibrationEnter")
         = SweepStopCalls(inflight, "sendCalibrationEnter") + enters

(* C34: stopCalibrationSweep sets calibrationSaving and sends one stop
   request; when that request succeeds nothing more is sent and
   calibrationSaving is left as it is; when it fails exactly one plain ENTER
   is sent for the same session; when the ENTER succeeds calibrationSaving is
   left as it is; when it fails too the error is shown, calibrationSaving is
   false, calibrationStarted is as it was and nothing more is sent. *)
C34_StopThenOneEnterFallback ==
    [][ /\ ClickEndCalibration
           => /\ cal'.calibrationSaving
              /\ cal'.calibrationStarted
              /\ SweepStopIssues(1, 0)
        /\ \A i \in Requests :
             StopCalibrationResponse(i)
             => /\ cal'.calibrationSaving = cal.calibrationSaving
                /\ cal'.calibrationStarted = cal.calibrationStarted
                /\ cal'.error = cal.error
                /\ IF inflight[i].result = "ok"
                   THEN SweepStopIssues(0, 0)
                   ELSE /\ SweepStopIssues(0, 1)
                        /\ inflight'[Len(inflight')].sid = inflight[i].sid
        /\ \A i \in Requests :
             StopFallbackResponse(i)
             => /\ SweepStopIssues(0, 0)
                /\ cal'.calibrationStarted = cal.calibrationStarted
                /\ IF inflight[i].result = "ok"
                   THEN /\ cal'.calibrationSaving = cal.calibrationSaving
                        /\ cal'.error = cal.error
                   ELSE /\ ~cal'.calibrationSaving
                        /\ cal'.error = "request failed" ]_vars

(* Both requests have failed for a sweep that is still shown as started and
   being saved: the failed ENTER is about to be handled *)
C34_Witness ==
    /\ mounted
    /\ cal.calibrationStarted
    /\ cal.calibrationSaving
    /\ \E i \in 1..Len(inflight) :
         /\ inflight[i].handler = "stopCalibrationSweep"
         /\ inflight[i].call = "sendCalibrationEnter"
         /\ inflight[i].result = "error"

-----------------------------------------------------------------------------
(* Home: adding and deleting robots (page.tsx:1249-1335), and the robot store
   of the backend with its fleet broadcast, modelled from the specification.
   No device is attached here: every robot is offline and the ports map is
   empty. *)

MaxCreates == 1
MaxBulkRuns == 1

RosterNames == [armA |-> "alpha", armB |-> "beta", armC |-> "gamma"]

(* The ids the store hands out to created robots, in this order *)
NewRobotIds == <<"armC">>

rosterRobot(id) ==
    [id |-> id, name |-> RosterNames[id], com_port |-> RobotPort, status |-> "offline"]

rosterRecords(stored) == [i \in 1..Len(stored) |-> rosterRobot(stored[i])]

(* FleetSnapshot of the stored robots *)
rosterSnapshot(stored) == [robots |-> rosterRecords(stored), ports |-> {}]

robotIds(list) == {list[i].id : i \in 1..Len(list)}

RECURSIVE filterRobots(_, _)
(* list.filter((r) => !ids.has(r.id)) *)
filterRobots(list, ids) ==
    IF list = <<>> THEN <<>>
    ELSE IF Head(list).id \in ids THEN filterRobots(Tail(list), ids)
    ELSE <<Head(list)>> \o filterRobots(Tail(list), ids)

RECURSIVE findTarget(_, _)
(* robots.find((r) => r.id === id) *)
findTarget(list, id) ==
    IF list = <<>> THEN NoRobot
    ELSE IF Head(list).id = id THEN Head(list)
    ELSE findTarget(Tail(list), id)

(* The orders in which Array.from(selectedIds) can list the selection *)
Orders(S) == {q \in SeqsUpTo(S, Cardinality(S)) : Len(q) = Cardinality(S) /\ robotIds([i \in 1..Len(q) |-> [id |-> q[i]]]) = S}

(* Home shows the two stored robots; nothing is selected or in progress *)
InitRoster ==
    /\ roster = [stored |-> <<"armA", "armB">>, created |-> 0]
    /\ home = [initialHome EXCEPT !.robots = rosterRecords(<<"armA", "armB">>)]
    /\ homeOps = initialHomeOps
    /\ homeInflight = <<>>
    /\ homeSocket = <<>>
    /\ presence = initialPresence({})
    /\ camera = initialCamera
    /\ CalibrationClosed
    /\ InitTeleopIdle

RosterBackendSame == UNCHANGED <<roster, homeSocket, homeInflight, presence, camera, calVars, tpVars>>

(* --- the robot store --- *)

(* POST /robots: the record is stored and the fleet is broadcast *)
ServeCreateRobot(i) ==
    /\ i \in 1..Len(homeOps.creates)
    /\ homeOps.creates[i].result = "none"
    /\ roster.created < Len(NewRobotIds)
    /\ LET id == NewRobotIds[roster.created + 1]
       IN /\ roster' = [stored |-> Append(roster.stored, id), created |-> roster.created + 1]
          /\ homeSocket' = Append(homeSocket, rosterSnapshot(roster'.stored))
          /\ homeOps' = [homeOps EXCEPT !.creates[i] = [result |-> "ok", robot |-> rosterRobot(id)]]
    /\ UNCHANGED <<home, homeInflight, presence, camera, calVars, tpVars>>

(* A create or delete request is rejected or does not reach the backend *)
CreateRobotFails(i) ==
    /\ i \in 1..Len(homeOps.creates)
    /\ homeOps.creates[i].result = "none"
    /\ homeOps' = [homeOps EXCEPT !.creates[i].result = "error"]
    /\ UNCHANGED <<home, roster, homeSocket, homeInflight, presence, camera, calVars, tpVars>>

(* DELETE /robots/{id}: the record is removed and the fleet is broadcast; an
   id the store does not hold is answered with an error *)
ServeDeleteRobot ==
    /\ homeOps.bulk.at > 0
    /\ homeOps.bulk.result = "none"
    /\ LET id == homeOps.bulk.ids[homeOps.bulk.at]
       IN IF id \in robotIds(rosterRecords(roster.stored))
          THEN /\ roster' = [roster EXCEPT !.stored = SelectSeq(@, LAMBDA x : x # id)]
               /\ homeSocket' = Append(homeSocket, rosterSnapshot(roster'.stored))
               /\ homeOps' = [homeOps EXCEPT !.bulk.result = "ok"]
          ELSE /\ homeOps' = [homeOps EXCEPT !.bulk.result = "error"]
               /\ UNCHANGED <<roster, homeSocket>>
    /\ UNCHANGED <<home, homeInflight, presence, camera, calVars, tpVars>>

DeleteRobotFails ==
    /\ homeOps.bulk.at > 0
    /\ homeOps.bulk.result = "none"
    /\ homeOps' = [homeOps EXCEPT !.bulk.result = "error"]
    /\ UNCHANGED <<home, roster, homeSocket, homeInflight, presence, camera, calVars, tpVars>>

(* --- Home --- *)

(* page.tsx:1249-1253 *)
OpenWizard ==
    /\ ~homeOps.wizardOpen
    /\ homeOps' = [homeOps EXCEPT !.wizardOpen = TRUE]
    /\ UNCHANGED home
    /\ RosterBackendSame

(* page.tsx:1268-1274: handleCreateRobot up to its await; named says that the
   form holds a name *)
handleCreateRobot(h, named) ==
    IF named THEN [h EXCEPT !.loading = TRUE, !.error = NoError]
    ELSE [h EXCEPT !.error = "Give the robot a name."]

(* page.tsx:1255-1263: Next on the last step of the wizard *)
WizardCreate ==
    /\ homeOps.wizardOpen
    /\ Len(homeOps.creates) < MaxCreates
    /\ \E named \in BOOLEAN :
         /\ home' = handleCreateRobot(home, named)
         /\ homeOps' = IF named
                       THEN [homeOps EXCEPT !.creates = Append(@, [result |-> "none",
                                                                    robot |-> NoRobot])]
                       ELSE homeOps
    /\ RosterBackendSame

(* page.tsx:1275-1284: createRobot has returned *)
createRobotDone(h, call) ==
    IF call.result = "ok"
    THEN [h EXCEPT !.robots = Append(h.robots, call.robot), !.loading = FALSE]
    ELSE [h EXCEPT !.error = "request failed", !.loading = FALSE]

CreateRobotResponse(i) ==
    /\ i \in 1..Len(homeOps.creates)
    /\ homeOps.creates[i].result # "none"
    /\ home' = createRobotDone(home, homeOps.creates[i])
    /\ homeOps' = [homeOps EXCEPT !.creates = Without(@, i),
                                  !.wizardOpen = IF homeOps.creates[i].result = "ok"
                                                 THEN FALSE ELSE @]
    /\ RosterBackendSame

(* page.tsx:1287-1298 *)
toggleSelect(ids, id) == IF id \in ids THEN ids \ {id} ELSE ids \cup {id}

ToggleSelect(id) ==
    /\ id \in robotIds(home.robots)
    /\ ~homeOps.confirmBulkDelete
    /\ homeOps' = [homeOps EXCEPT !.selectedIds = toggleSelect(@, id)]
    /\ UNCHANGED home
    /\ RosterBackendSame

(* page.tsx:1299-1307 *)
handleSelectAll(h, ids) ==
    IF Len(h.robots) > 0 /\ Cardinality(ids) = Len(h.robots) THEN {} ELSE robotIds(h.robots)

HandleSelectAll ==
    /\ ~homeOps.confirmBulkDelete
    /\ homeOps' = [homeOps EXCEPT !.selectedIds = handleSelectAll(home, @)]
    /\ UNCHANGED home
    /\ RosterBackendSame

(* page.tsx:1381-1383 *)
ClickDeleteSelected ==
    /\ homeOps.selectedIds # {}
    /\ ~homeOps.confirmBulkDelete
    /\ homeOps' = [homeOps EXCEPT !.confirmBulkDelete = TRUE]
    /\ UNCHANGED home
    /\ RosterBackendSame

(* page.tsx:1576 *)
CancelBulkDelete ==
    /\ homeOps.confirmBulkDelete
    /\ homeOps' = [homeOps EXCEPT !.confirmBulkDelete = FALSE]
    /\ UNCHANGED home
    /\ RosterBackendSame

(* page.tsx:1309-1320: handleBulkDelete up to its first await; the closure
   keeps the selection, its order and the robots of this render *)
ConfirmBulkDelete ==
    /\ homeOps.confirmBulkDelete
    /\ homeOps.bulk.at = 0
    /\ homeOps.bulkRuns < MaxBulkRuns
    /\ IF homeOps.selectedIds = {}
       THEN /\ homeOps' = [homeOps EXCEPT !.confirmBulkDelete = FALSE]
            /\ UNCHANGED home
       ELSE \E ids \in Orders(homeOps.selectedIds) :
              /\ home' = [home EXCEPT !.loading = TRUE, !.error = NoError]
              /\ homeOps' = [homeOps EXCEPT !.bulkRuns = @ + 1,
                                            !.bulk = [ids |-> ids, at |-> 1, failed |-> <<>>,
                                                      selected |-> homeOps.selectedIds,
                                                      robots |-> home.robots,
                                                      result |-> "none"]]
    /\ RosterBackendSame

(* page.tsx:1319-1325: the names collected in `failed` once the delete of
   ids[at] has returned *)
bulkFailed(b) ==
    IF b.result = "error"
    THEN LET target == findTarget(b.robots, b.ids[b.at])
         IN Append(b.failed, IF target = NoRobot THEN b.ids[b.at] ELSE target.name)
    ELSE b.failed

CouldNotDelete(names) == <<"Could not delete: ", names>>

(* page.tsx:1326-1334: the loop has ended *)
bulkDeleteDone(h, b) ==
    LET failed == bulkFailed(b)
    IN [h EXCEPT !.robots = filterRobots(h.robots, b.selected),
                 !.loading = FALSE,
                 !.error = IF failed # <<>> THEN CouldNotDelete(failed) ELSE h.error]

(* deleteRobot(ids[at]) has returned: the loop goes on with the next id *)
BulkDeleteNext ==
    /\ homeOps.bulk.at > 0
    /\ homeOps.bulk.result # "none"
    /\ homeOps.bulk.at < Len(homeOps.bulk.ids)
    /\ homeOps' = [homeOps EXCEPT !.bulk.failed = bulkFailed(homeOps.bulk),
                                  !.bulk.at = @ + 1,
                                  !.bulk.result = "none"]
    /\ UNCHANGED home
    /\ RosterBackendSame

(* deleteRobot of the last id has returned *)
BulkDeleteEnds ==
    /\ homeOps.bulk.at > 0
    /\ homeOps.bulk.result # "none"
    /\ homeOps.bulk.at = Len(homeOps.bulk.ids)
    /\ home' = bulkDeleteDone(home, homeOps.bulk)
    /\ homeOps' = [homeOps EXCEPT !.selectedIds = {}, !.confirmBulkDelete = FALSE,
                                  !.bulk = NoBulk]
    /\ RosterBackendSame

NextRoster ==
    \/ \E i \in 1..MaxCreates : ServeCreateRobot(i)
    \/ \E i \in 1..MaxCreates : CreateRobotFails(i)
    \/ ServeDeleteRobot
    \/ DeleteRobotFails
    \/ OpenWizard
    \/ WizardCreate
    \/ \E i \in 1..MaxCreates : CreateRobotResponse(i)
    \/ \E id \in DOMAIN RosterNames : ToggleSelect(id)
    \/ HandleSelectAll
    \/ ClickDeleteSelected
    \/ CancelBulkDelete
    \/ ConfirmBulkDelete
    \/ BulkDeleteNext
    \/ BulkDeleteEnds
    \/ HomeFleetMessage

SpecRoster == InitRoster /\ [][NextRoster]_vars

(* C35: the robots the fleet view lists have pairwise different ids. *)
C35_RobotIdsUnique ==
    \A i, j \in 1..Len(home.robots) : home.robots[i].id = home.robots[j].id => i = j

(* C36: when handleBulkDelete ends, a robot of the list stays listed exactly
   when it was not selected or its delete request failed; every robot whose
   delete failed is named in the error message; the selection is empty. *)
C36_BulkDeleteDropsDeletedOnly ==
    [][ BulkDeleteEnds
        => LET b == homeOps.bulk
               failed == bulkFailed(b)
               isFailed(r) == \E k \in 1..Len(failed) : failed[k] = r.name
           IN /\ \A k \in 1..Len(home.robots) :
                    LET r == home.robots[k]
                    IN (r.id \in robotIds(home'.robots)) <=> (r.id \notin b.selected \/ isFailed(r))
              /\ failed # <<>> => home'.error = CouldNotDelete(failed)
              /\ homeOps'.selectedIds = {} ]_vars

-----------------------------------------------------------------------------
(* RobotDetailPage: the add-camera dialog (part_004:284-431).  The answers of
   the camera endpoints are inputs: a probe describes the device it was asked
   about, with or without a suggested mode; a snapshot is a frame of the
   device it was asked about. *)

MaxSelects == 3
MaxPreviewFailures == 2
MaxCameraCalls == 2

Cameras == {"cam0", "cam1"}

CameraInfo ==
    [ cam0 |-> [label |-> "Front", serial_number |-> "S0", path |-> "/dev/video0"],
      cam1 |-> [label |-> "Wrist", serial_number |-> "S1", path |-> "/dev/video1"] ]

probeOf(device, hasMode) ==
    [ device |-> device, label |-> CameraInfo[device].label,
      serial_number |-> CameraInfo[device].serial_number,
      path |-> CameraInfo[device].path, hasMode |-> hasMode ]

(* a || b on strings *)
orElse(a, b) == IF a # "" THEN a ELSE b

CameraCall(kind, device, token) ==
    [kind |-> kind, device |-> device, token |-> token, result |-> "none", probe |-> NoProbe]

InitCamera ==
    /\ camera = initialCamera
    /\ home = initialHome
    /\ homeInflight = <<>>
    /\ homeSocket = <<>>
    /\ presence = initialPresence({})
    /\ homeOps = initialHomeOps
    /\ roster = NoRoster
    /\ CalibrationClosed
    /\ InitTeleopIdle

CameraOnly ==
    UNCHANGED <<home, homeInflight, homeSocket, presence, homeOps, roster, calVars, tpVars>>

(* part_004:361-374: refreshPreview(target, _, {fastOnly, force}, token) up to
   its await; r is the render whose closure the callback was created in *)
refreshPreview(r, s, deviceId, force, token) ==
    LET target == orElse(deviceId, r.selectedCameraId)
    IN IF target = NoCamera THEN s
       ELSE IF r.cameraPreviewLoading /\ ~force THEN s
       ELSE [s EXCEPT !.cameraPreviewLoading = TRUE,
                      !.calls = Append(@, CameraCall("snapshot", target, token))]

(* part_004:284-301 *)
openAddCameraFlow(s) ==
    [s EXCEPT !.cameraForm = defaultCameraForm,
              !.cameraProbe = NoProbe,
              !.cameraValidation = NoError,
              !.cameraPreviewUrl = NoCamera,
              !.selectedCameraId = NoCamera,
              !.showAddCameraModal = TRUE]

OpenAddCameraFlow ==
    /\ ~camera.showAddCameraModal
    /\ camera' = openAddCameraFlow(camera)
    /\ CameraOnly

(* part_004:747, 927 *)
CloseAddCameraModal ==
    /\ camera.showAddCameraModal
    /\ camera' = [camera EXCEPT !.showAddCameraModal = FALSE]
    /\ CameraOnly

(* part_004:303-324 *)
handleSelectCamera(s, cameraId) ==
    LET s1 == [s EXCEPT !.previewToken = @ + 1,
                        !.selectedCameraId = cameraId,
                        !.cameraProbe = NoProbe,
                        !.cameraValidation = NoError,
                        !.cameraPreviewUrl = NoCamera]
    IN IF cameraId = NoCamera THEN s1
       ELSE refreshPreview(s, [s1 EXCEPT !.cameraForm = defaultCameraForm],
                           cameraId, TRUE, s1.previewToken)

HandleSelectCamera(cameraId) ==
    /\ camera.showAddCameraModal
    /\ camera.previewToken < MaxSelects
    /\ Len(camera.calls) < MaxCameraCalls
    /\ camera' = handleSelectCamera(camera, cameraId)
    /\ CameraOnly

(* part_004:326-333: handleDetectCamera up to its await *)
handleDetectCamera(s) ==
    IF s.selectedCameraId = NoCamera
    THEN [s EXCEPT !.cameraValidation = "Pick a camera first."]
    ELSE [s EXCEPT !.probingCamera = TRUE,
                   !.calls = Append(@, CameraCall("probe", s.selectedCameraId, s.previewToken))]

(* part_004:796: the Detect button *)
HandleDetectCamera ==
    /\ camera.showAddCameraModal
    /\ camera.selectedCameraId # NoCamera /\ ~camera.probingCamera
    /\ Len(camera.calls) < MaxCameraCalls
    /\ camera' = handleDetectCamera(camera)
    /\ CameraOnly

(* The camera endpoint answers, or the request fails *)
ServeCameraCall(i, ok) ==
    /\ i \in 1..Len(camera.calls)
    /\ camera.calls[i].result = "none"
    /\ ok \/ camera.calls[i].kind = "probe" \/ camera.previewFailures < MaxPreviewFailures
    /\ \E hasMode \in BOOLEAN :
         camera' = [camera EXCEPT
                      !.calls[i].result = IF ok THEN "ok" ELSE "error",
                      !.calls[i].probe = IF ok /\ camera.calls[i].kind = "probe"
                                         THEN probeOf(camera.calls[i].device, hasMode)
                                         ELSE NoProbe]
    /\ CameraOnly

(* part_004:337-348: the form once the probe has been merged into it; the
   closure's selectedCameraId and prevSelected are the same value *)
mergeProbe(form, probe) ==
    LET isNewDevice == form.name = ""
    IN [ name |-> IF isNewDevice THEN orElse(probe.label, form.name) ELSE form.name,
         serial_number |-> orElse(probe.serial_number, form.serial_number),
         path |-> orElse(probe.path, form.path) ]

(* part_004:334-358: probeCameraDevice has returned; call.device is the
   selectedCameraId of the closure *)
handleDetectCameraDone(s, call) ==
    IF call.result = "ok"
    THEN LET s1 == [s EXCEPT !.cameraProbe = [f \in DOMAIN NoProbe |-> call.probe[f]],
                             !.cameraForm = mergeProbe(s.cameraForm, call.probe)]
             r == [s EXCEPT !.selectedCameraId = call.device]
             s2 == IF call.probe.hasMode
                   THEN refreshPreview(r, s1, call.device, TRUE, s.previewToken)
                   ELSE s1
         IN [s2 EXCEPT !.cameraValidation = NoError, !.probingCamera = FALSE]
    ELSE [s EXCEPT !.cameraValidation = "request failed", !.probingCamera = FALSE]

cameraBatch(s, i) == [s EXCEPT !.calls = Without(@, i)]

ProbeResponse(i) ==
    /\ i \in 1..Len(camera.calls)
    /\ camera.calls[i].kind = "probe"
    /\ camera.calls[i].result # "none"
    /\ camera' = handleDetectCameraDone(cameraBatch(camera, i), camera.calls[i])
    /\ CameraOnly

(* part_004:375-388, 394-398, 423-429: fetchCameraSnapshot has returned to a
   fastOnly refreshPreview *)
refreshPreviewDone(s, call) ==
    IF call.result = "ok"
    THEN [s EXCEPT !.cameraPreviewUrl = IF call.token = s.previewToken THEN call.device ELSE @,
                   !.previewFailures = 0,
                   !.cameraPreviewLoading = FALSE]
    ELSE [s EXCEPT !.previewFailures = @ + 1, !.cameraPreviewLoading = FALSE]

SnapshotResponse(i) ==
    /\ i \in 1..Len(camera.calls)
    /\ camera.calls[i].kind = "snapshot"
    /\ camera.calls[i].result # "none"
    /\ camera' = refreshPreviewDone(cameraBatch(camera, i), camera.calls[i])
    /\ CameraOnly

NextCamera ==
    \/ OpenAddCameraFlow
    \/ CloseAddCameraModal
    \/ \E cameraId \in Cameras \cup {NoCamera} : HandleSelectCamera(cameraId)
    \/ HandleDetectCamera
    \/ \E i \in 1..MaxCameraCalls : \E ok \in BOOLEAN : ServeCameraCall(i, ok)
    \/ \E i \in 1..MaxCameraCalls : ProbeResponse(i)
    \/ \E i \in 1..MaxCameraCalls : SnapshotResponse(i)

SpecCamera == InitCamera /\ [][NextCamera]_vars

(* C37: while a camera is selected in the add-camera dialog, the preview
   shown, if any, is a frame of that camera, the probe result shown, if any,
   describes that camera, and the path the form holds, if any, is the path of
   that camera. *)
C37_DialogShowsSelectedCamera ==
    camera.selectedCameraId # NoCamera
    => /\ camera.cameraPreviewUrl \in {NoCamera, camera.selectedCameraId}
       /\ camera.cameraProbe.device \in {NoCamera, camera.selectedCameraId}
       /\ camera.cameraForm.path \in {"", CameraInfo[camera.selectedCameraId].path}

====
